---------------------------- MODULE Spec2Model ----------------------------
(***************************************************************************)
(* The traffic-intersection scheduling core of                            *)
(* src/backend/flask_app/schedulers.py: TrafficScheduler.schedule and the *)
(* planners behind it, as a state machine over one scheduler instance and *)
(* the IntersectionState its caller holds.                                *)
(*                                                                         *)
(* Numbers.  The code computes in Python ints and floats.                 *)
(*   - queue lengths, waiting times, arrival rates, ETAs, priorities and  *)
(*     every policy parameter are integers in the code's own units        *)
(*     (vehicles, seconds, vehicles per second);                          *)
(*   - a Phase duration and sim_time are integers counting HALF seconds   *)
(*     (the only fraction a duration can have is the .5 of 2.5 * queue),  *)
(*     so Phase('NS_green', 7.0) is [phase |-> "NS_green", duration |->   *)
(*     14]; Sec(n) converts seconds to that unit;                         *)
(*   - a direction priority score is the int or the double the code       *)
(*     computes: each true division and each float addition is rounded   *)
(*     to 53 significant bits, ties to even, as the hardware does (see    *)
(*     "Python's numbers" below);                                         *)
(*   - mean and variance of the queues are kept as numerator and          *)
(*     denominator and compared with the thresholds by cross              *)
(*     multiplication.                                                    *)
(***************************************************************************)
EXTENDS Integers, Sequences, FiniteSets, TLC

VARIABLES
    state,          \* the caller's IntersectionState
    policy_params,  \* TrafficScheduler.policy_params
    last_phase_switch_time, \* TrafficScheduler._last_phase_switch_time
    policy_history, \* TrafficScheduler._policy_history
    policy,         \* the policy argument of the last call of schedule or
                    \* explain_decision
    selected,       \* the policy that call dispatched to ("none": no dispatch)
    plan,           \* the ActionPlan that call returned
    error,          \* the exception that call raised ("none": it returned)
    pc,             \* "idle": no call made yet, "scheduled": schedule was
                    \* called, "stepped": its plan's first phase was applied,
                    \* "explained": explain_decision was called, "applied":
                    \* apply_action_plan was called on the plan
    calls,          \* the schedule calls made on the scheduler so far, in
                    \* order: each with the state and the policy passed and
                    \* the plan returned or the exception raised (kept by
                    \* the runs that compare calls)
    explanation,    \* the string explain_decision returned ("none": not
                    \* called)
    shown,          \* the set_phase calls made on the sim since the caller
                    \* last built a state (kept by the runs that execute
                    \* plans)
    traffic_lights, \* TrafficSimulation.traffic_lights: state and timer of
                    \* the TrafficLight of each Direction
    vehicles        \* TrafficSimulation.vehicles: the vehicles of each lane,
                    \* as their number and the number of emergency vehicles
                    \* among them

vars == <<state, policy_params, last_phase_switch_time, policy_history,
          policy, selected, plan, error, pc, calls, explanation, shown,
          traffic_lights, vehicles>>

---------------------------------------------------------------------------
(* Value types and generic helpers *)

Directions == {"N", "E", "S", "W"}

PhaseIds == {"NS_green", "EW_green", "NS_yellow", "EW_yellow", "all_red"}

\* SchedulingPolicy's values
SchedulingPolicy == {"RR", "SJF", "PRIORITY", "META"}

\* Phase(phase, duration, preemptable)
Phase(phase, duration, preemptable) ==
    [phase |-> phase, duration |-> duration, preemptable |-> preemptable]

\* n seconds as a duration of the model (half seconds)
Sec(n) == 2 * n

Max(a, b) == IF a >= b THEN a ELSE b

Min(a, b) == IF a <= b THEN a ELSE b

\* dict.get(key, default)
Get(map, key, default) == IF key \in DOMAIN map THEN map[key] ELSE default

RECURSIVE SumSeq(_)
\* sum(list)
SumSeq(s) == IF s = <<>> THEN 0 ELSE Head(s) + SumSeq(Tail(s))

RECURSIVE SumValues(_)
\* sum(dict.values())
SumValues(map) ==
    IF DOMAIN map = {} THEN 0
    ELSE LET k == CHOOSE x \in DOMAIN map : TRUE
         IN  map[k] + SumValues([x \in DOMAIN map \ {k} |-> map[x]])

\* list.index(x): the first position of x (1-based), 0 when list.index raises
\* ValueError
IndexOf(s, x) ==
    IF \E i \in 1..Len(s) : s[i] = x
    THEN CHOOSE i \in 1..Len(s) : s[i] = x /\ \A j \in 1..(i - 1) : s[j] # x
    ELSE 0

\* min(list, key=...) for integer keys: the position of the first element
\* whose key is minimal, keys being the sequence of the elements' keys
FirstMin(keys) ==
    CHOOSE i \in 1..Len(keys) :
        /\ \A j \in 1..Len(keys) : keys[i] <= keys[j]
        /\ \A j \in 1..(i - 1) : keys[j] > keys[i]

\* Python's order on the tuples (time_to_intersection, priority)
TupleLeq(a, b) == a[1] < b[1] \/ (a[1] = b[1] /\ a[2] <= b[2])

\* min(list, key=...) for keys that are such tuples
FirstMinTuple(keys) ==
    CHOOSE i \in 1..Len(keys) :
        /\ \A j \in 1..Len(keys) : TupleLeq(keys[i], keys[j])
        /\ \A j \in 1..(i - 1) : ~TupleLeq(keys[j], keys[i])

---------------------------------------------------------------------------
(* Python's numbers.  A whole number below 2^31, int or float, is kept as  *)
(* an integer (field int).  Any other float is kept as a sign and a        *)
(* magnitude in binary fixed point: Limbs digits of 15 bits, least         *)
(* significant first, FractionLimbs of them after the binary point, which  *)
(* holds a double between 2^-52 and 2^45 exactly.  A divisor is at most    *)
(* 2^15.                                                                   *)

Base == 32768

Limbs == 10

FractionLimbs == 7

Zeros == [i \in 1..Limbs |-> 0]

Abs(n) == IF n < 0 THEN -n ELSE n

\* a Python int
FromInt(n) == [whole |-> TRUE, int |-> n]

IsWhole(x) == x.whole

\* the sign and magnitude of a number
Lift(x) ==
    IF IsWhole(x)
    THEN [neg |-> x.int < 0,
          mag |-> [i \in 1..Limbs |->
                      IF i = FractionLimbs + 1 THEN Abs(x.int) % Base
                      ELSE IF i = FractionLimbs + 2
                      THEN (Abs(x.int) \div Base) % Base
                      ELSE IF i = FractionLimbs + 3
                      THEN Abs(x.int) \div (Base * Base)
                      ELSE 0]]
    ELSE x

\* the number of the given sign and magnitude (0 == -0.0 in Python)
Number(neg, mag) ==
    IF /\ \A i \in 1..FractionLimbs : mag[i] = 0
       /\ mag[FractionLimbs + 3] < 2
    THEN FromInt((IF neg THEN -1 ELSE 1)
                 * (mag[FractionLimbs + 1] + Base * mag[FractionLimbs + 2]
                    + Base * Base * mag[FractionLimbs + 3]))
    ELSE [whole |-> FALSE, neg |-> neg, mag |-> mag]

\* a < b on magnitudes
MagLess(a, b) ==
    \E i \in 1..Limbs : a[i] < b[i] /\ \A j \in (i + 1)..Limbs : a[j] = b[j]

\* a + b on magnitudes
MagAdd(a, b) ==
    LET carry[i \in 1..Limbs] ==
            IF i = 1 THEN 0 ELSE (a[i - 1] + b[i - 1] + carry[i - 1]) \div Base
    IN  [i \in 1..Limbs |-> (a[i] + b[i] + carry[i]) % Base]

\* a - b on magnitudes, a >= b
MagSub(a, b) ==
    LET borrow[i \in 1..Limbs] ==
            IF i = 1 THEN 0
            ELSE IF a[i - 1] - b[i - 1] - borrow[i - 1] < 0 THEN 1 ELSE 0
    IN  [i \in 1..Limbs |-> (a[i] - b[i] - borrow[i] + Base) % Base]

\* a / b on magnitudes, b in 1..Base: the quotient cut after the last limb,
\* and whether anything was cut off
MagDiv(a, b) ==
    LET rem[i \in 1..(Limbs + 1)] ==
            IF i = Limbs + 1 THEN 0 ELSE (rem[i + 1] * Base + a[i]) % b
    IN  [quot    |-> [i \in 1..Limbs |-> (rem[i + 1] * Base + a[i]) \div b],
         inexact |-> rem[1] # 0]

\* the double nearest to a magnitude (inexact: the magnitude has bits
\* beyond its last limb): 53 significant bits, round half to even
Round(mag, inexact) ==
    IF mag = Zeros THEN mag
    ELSE LET top  == CHOOSE i \in 1..Limbs :
                         mag[i] # 0 /\ \A j \in (i + 1)..Limbs : mag[j] = 0
             bits == CHOOSE n \in 1..15 :
                         2 ^ (n - 1) <= mag[top] /\ mag[top] < 2 ^ n
             cut  == top - ((53 - bits) \div 15) - 1
             ulp  == 2 ^ (15 - ((53 - bits) % 15))
         IN  IF cut < 1 THEN mag
             ELSE LET rest  == mag[cut] % ulp
                      half  == ulp \div 2
                      low   == inexact \/ \E j \in 1..(cut - 1) : mag[j] # 0
                      odd   == ((mag[cut] + Base * mag[cut + 1]) \div ulp) % 2 = 1
                      up    == rest > half \/ (rest = half /\ (low \/ odd))
                      trunc == [i \in 1..Limbs |->
                                   IF i < cut THEN 0
                                   ELSE IF i = cut THEN mag[cut] - rest
                                   ELSE mag[i]]
                  IN  IF up
                      THEN MagAdd(trunc, [i \in 1..Limbs |->
                                             IF i = cut THEN ulp ELSE 0])
                      ELSE trunc

\* x / b for a number x and a Python int b # 0: int / int and float / int
\* are both the correctly rounded quotient (a whole quotient is exact)
Divide(x, b) ==
    IF IsWhole(x) /\ Abs(x.int) % Abs(b) = 0
    THEN FromInt((IF (x.int < 0) # (b < 0) THEN -1 ELSE 1)
                 * (Abs(x.int) \div Abs(b)))
    ELSE LET d == MagDiv(Lift(x).mag, Abs(b))
         IN  Number(Lift(x).neg # (b < 0), Round(d.quot, d.inexact))

\* x + y: int + int, or the correctly rounded sum of two doubles (a sum of
\* whole numbers below 2^30 is exact)
Add(x, y) ==
    IF /\ IsWhole(x) /\ Abs(x.int) < Base * Base
       /\ IsWhole(y) /\ Abs(y.int) < Base * Base
    THEN FromInt(x.int + y.int)
    ELSE LET a == Lift(x)
             b == Lift(y)
         IN  IF a.neg = b.neg
             THEN Number(a.neg, Round(MagAdd(a.mag, b.mag), FALSE))
             ELSE IF MagLess(a.mag, b.mag)
             THEN Number(b.neg, Round(MagSub(b.mag, a.mag), FALSE))
             ELSE Number(a.neg, Round(MagSub(a.mag, b.mag), FALSE))

\* x < y
Less(x, y) ==
    IF IsWhole(x) /\ IsWhole(y) THEN x.int < y.int
    ELSE LET a == Lift(x)
             b == Lift(y)
         IN  IF a.neg # b.neg THEN a.neg
             ELSE IF a.neg THEN MagLess(b.mag, a.mag)
             ELSE MagLess(a.mag, b.mag)

\* max(list, key=...): the position of the first element whose key is maximal
FirstMax(keys) ==
    CHOOSE i \in 1..Len(keys) :
        /\ \A j \in 1..Len(keys) : ~Less(keys[i], keys[j])
        /\ \A j \in 1..(i - 1) : Less(keys[j], keys[i])

RECURSIVE DictKeys(_)
\* the keys of a dict filled by iterating over list: the list's distinct
\* elements in the order of their first occurrence
DictKeys(s) ==
    IF s = <<>> THEN <<>>
    ELSE LET front == DictKeys(SubSeq(s, 1, Len(s) - 1))
             last  == s[Len(s)]
         IN  IF \E i \in 1..Len(front) : front[i] = last
             THEN front ELSE Append(front, last)

---------------------------------------------------------------------------
(* TrafficScheduler: helpers and metrics *)

\* the order in which _priority_schedule visits the directions
DirectionOrder == <<"N", "E", "S", "W">>

\* the phase name, or "ValueError" when the method raises it
_get_green_phase_for_direction(direction) ==
    IF direction \in {"N", "S"} THEN "NS_green"
    ELSE IF direction \in {"E", "W"} THEN "EW_green"
    ELSE "ValueError"

\* the directions a phase serves, in the code's order ([] for a phase that
\* is not a green)
PhaseDirections(phase) ==
    IF phase = "NS_green" THEN <<"N", "S">>
    ELSE IF phase = "EW_green" THEN <<"E", "W">>
    ELSE <<>>

\* sum(self._get_queues_for_phase(state, phase).values())
_get_queues_for_phase(st, phase) ==
    LET ds == PhaseDirections(phase)
    IN  SumSeq([i \in 1..Len(ds) |-> Get(st.queues, ds[i], 0)])

\* the mean as the pair <<numerator, denominator>>: sum / len, 0.0 for no
\* queues
_compute_average_queue_length(st) ==
    LET n == Cardinality(DOMAIN st.queues)
    IN  IF n = 0 THEN <<0, 1>> ELSE <<SumValues(st.queues), n>>

\* the variance as <<numerator, denominator>>:
\* sum((q - mean) ** 2) / n = (n * sum(q ** 2) - sum(q) ** 2) / n ** 2
_compute_queue_variance(st) ==
    LET n  == Cardinality(DOMAIN st.queues)
        s  == SumValues(st.queues)
        s2 == SumValues([d \in DOMAIN st.queues |-> st.queues[d] * st.queues[d]])
    IN  IF n < 2 THEN <<0, 1>> ELSE <<n * s2 - s * s, n * n>>

\* arrivals expected within horizon on the directions of phase (vehicles)
_estimate_jobs_in_horizon(st, phase, horizon) ==
    LET ds == PhaseDirections(phase)
    IN  SumSeq([i \in 1..Len(ds) |-> Get(st.arrival_rates, ds[i], 0) * horizon])

RECURSIVE EmergencyBonus(_, _, _)
\* the loop "for ev in state.emergency" of _calculate_direction_priority,
\* from the priority it starts with
EmergencyBonus(priority, emergency, direction) ==
    IF emergency = <<>> THEN priority
    ELSE EmergencyBonus(IF Head(emergency).direction = direction
                        THEN Add(priority,
                                 Divide(FromInt(100), Head(emergency).priority))
                        ELSE priority,
                        Tail(emergency), direction)

\* _calculate_direction_priority adding the total wait instead of the mean
DirectionPriorityTotalWait(st, direction) ==
    LET queue_length  == Get(st.queues, direction, 0)
        waiting_times == Get(st.waiting_times, direction, <<>>)
        base          == FromInt(queue_length * 2)
        waited        == IF waiting_times # <<>>
                         THEN Add(base, Divide(FromInt(SumSeq(waiting_times)), 10))
                         ELSE base
    IN  EmergencyBonus(waited, st.emergency, direction)

\* the score of a direction (an emergency of priority 0 makes the code
\* raise ZeroDivisionError: _priority_schedule tests for it)
_calculate_direction_priority(st, direction) ==
    LET queue_length  == Get(st.queues, direction, 0)
        waiting_times == Get(st.waiting_times, direction, <<>>)
        base          == FromInt(queue_length * 2)
        waited        == IF waiting_times # <<>>
                         THEN LET avg_wait == Divide(FromInt(SumSeq(waiting_times)),
                                                     Len(waiting_times))
                              IN  Add(base, Divide(avg_wait, 10))
                         ELSE base
    IN  EmergencyBonus(waited, st.emergency, direction)

\* str.replace('green', 'yellow') on a phase name
ReplaceGreenYellow(phase) ==
    CASE phase = "NS_green" -> "NS_yellow"
      [] phase = "EW_green" -> "EW_yellow"
      [] OTHER -> phase

\* _schedule_transition_with_yellow taking the yellow from the target phase
\* instead of the current one
TransitionYellowOfTarget(params, current_phase, target_phase) ==
    LET yellow == IF current_phase # "all_red"
                  THEN <<Phase(ReplaceGreenYellow(target_phase),
                               Sec(params.yellow_duration), FALSE)>>
                  ELSE <<>>
    IN  yellow \o <<Phase("all_red", Sec(params.all_red_duration), FALSE)>>

\* _schedule_transition_with_yellow with the two durations exchanged
TransitionSwappedDurations(params, current_phase, target_phase) ==
    LET yellow == IF current_phase # "all_red"
                  THEN <<Phase(ReplaceGreenYellow(current_phase),
                               Sec(params.all_red_duration), FALSE)>>
                  ELSE <<>>
    IN  yellow \o <<Phase("all_red", Sec(params.yellow_duration), FALSE)>>

\* _schedule_transition_with_yellow ending in the target green itself
TransitionEmittingGreen(params, current_phase, target_phase) ==
    LET yellow == IF current_phase # "all_red"
                  THEN <<Phase(ReplaceGreenYellow(current_phase),
                               Sec(params.yellow_duration), FALSE)>>
                  ELSE <<>>
    IN  yellow \o <<Phase("all_red", Sec(params.all_red_duration), FALSE),
                    Phase(target_phase, Sec(params.min_green), TRUE)>>

\* _schedule_transition_with_yellow without the all-red clearance
TransitionWithoutAllRed(params, current_phase, target_phase) ==
    IF current_phase # "all_red"
    THEN <<Phase(ReplaceGreenYellow(current_phase),
                 Sec(params.yellow_duration), FALSE)>>
    ELSE <<>>

_schedule_transition_with_yellow(params, current_phase, target_phase) ==
    LET yellow == IF current_phase # "all_red"
                  THEN <<Phase(ReplaceGreenYellow(current_phase),
                               Sec(params.yellow_duration), FALSE)>>
                  ELSE <<>>
    IN  yellow \o <<Phase("all_red", Sec(params.all_red_duration), FALSE)>>

\* the "add transition if needed" step without the test for all_red
TransitionUnlessSameGreen(params, st, target_phase) ==
    IF st.current_phase # target_phase
    THEN _schedule_transition_with_yellow(params, st.current_phase, target_phase)
    ELSE <<>>

\* the "add transition if needed" step shared by the four planners
Transition(params, st, target_phase) ==
    IF st.current_phase # target_phase /\ st.current_phase # "all_red"
    THEN _schedule_transition_with_yellow(params, st.current_phase, target_phase)
    ELSE <<>>

---------------------------------------------------------------------------
(* TrafficScheduler: the planners.  Each returns what the method returns:  *)
(* a plan, or the exception it raises.                                     *)

Return(p) == [plan |-> p, error |-> "none"]

Raise(e) == [plan |-> <<>>, error |-> e]

\* _has_urgent_emergency with the buffer itself excluded
HasUrgentEmergencyStrict(params, st) ==
    \E i \in 1..Len(st.emergency) :
        \/ st.emergency[i].time_to_intersection < params.emergency_preempt_buffer
        \/ Get(st.queues, st.emergency[i].direction, 0) > 0

_has_urgent_emergency(params, st) ==
    \E i \in 1..Len(st.emergency) :
        \/ st.emergency[i].time_to_intersection <= params.emergency_preempt_buffer
        \/ Get(st.queues, st.emergency[i].direction, 0) > 0

\* the dict emergency_by_direction
EmergencyByDirection(st) ==
    [d \in {st.emergency[i].direction : i \in 1..Len(st.emergency)} |->
        SelectSeq(st.emergency, LAMBDA ev : ev.direction = d)]

\* target_direction choosing by (priority, time_to_intersection) in both
\* branches
TargetDirectionPriorityFirst(st) ==
    LET tuples == [i \in 1..Len(st.emergency) |->
                      <<st.emergency[i].priority,
                        st.emergency[i].time_to_intersection>>]
    IN  st.emergency[FirstMinTuple(tuples)].direction

\* target_direction taking the last of the emergencies with the smallest
\* time_to_intersection
TargetDirectionLastMin(st) ==
    LET i == CHOOSE k \in 1..Len(st.emergency) :
                 /\ \A j \in 1..Len(st.emergency) :
                        st.emergency[k].time_to_intersection
                            <= st.emergency[j].time_to_intersection
                 /\ \A j \in (k + 1)..Len(st.emergency) :
                        st.emergency[j].time_to_intersection
                            > st.emergency[k].time_to_intersection
    IN  st.emergency[i].direction

\* target_direction of _handle_emergency
EmergencyTargetDirection(st) ==
    LET emergency_by_direction == EmergencyByDirection(st)
        etas   == [i \in 1..Len(st.emergency) |->
                      st.emergency[i].time_to_intersection]
        tuples == [i \in 1..Len(st.emergency) |->
                      <<st.emergency[i].time_to_intersection,
                        st.emergency[i].priority>>]
    IN  IF Cardinality(DOMAIN emergency_by_direction) > 1
        THEN st.emergency[FirstMin(etas)].direction
        ELSE st.emergency[FirstMinTuple(tuples)].direction

\* emergency_duration of _handle_emergency
EmergencyDuration(params, emergency_count) ==
    Min(Sec(params.emergency_clear_duration) + Sec((emergency_count - 1) * 5),
        Sec(params.max_green))

\* _handle_emergency leaving preemptable at Phase's default
HandleEmergencyPreemptable(params, st) ==
    LET target_direction == EmergencyTargetDirection(st)
        target_phase     == _get_green_phase_for_direction(target_direction)
        emergency_count  == Len(Get(EmergencyByDirection(st), target_direction, <<>>))
    IN  IF target_phase = "ValueError" THEN Raise("ValueError")
        ELSE Return(Transition(params, st, target_phase)
                    \o <<Phase(target_phase,
                               EmergencyDuration(params, emergency_count),
                               TRUE)>>)

_handle_emergency(params, st) ==
    LET target_direction == EmergencyTargetDirection(st)
        target_phase     == _get_green_phase_for_direction(target_direction)
        emergency_count  == Len(Get(EmergencyByDirection(st), target_direction, <<>>))
    IN  IF target_phase = "ValueError" THEN Raise("ValueError")
        ELSE Return(Transition(params, st, target_phase)
                    \o <<Phase(target_phase,
                               EmergencyDuration(params, emergency_count),
                               FALSE)>>)

\* _select_policy with <= and >= for < and >
SelectPolicyNonStrict(params, st) ==
    LET avg_queue      == _compute_average_queue_length(st)
        queue_variance == _compute_queue_variance(st)
    IN  IF st.emergency # <<>> THEN "PRIORITY"
        ELSE IF avg_queue[1] <= params.low_load_threshold * avg_queue[2] THEN "RR"
        ELSE IF queue_variance[1] >= params.high_variance_threshold * queue_variance[2]
             THEN "SJF"
        ELSE "PRIORITY"

_select_policy(params, st) ==
    LET avg_queue      == _compute_average_queue_length(st)
        queue_variance == _compute_queue_variance(st)
    IN  IF st.emergency # <<>> THEN "PRIORITY"
        ELSE IF avg_queue[1] < params.low_load_threshold * avg_queue[2] THEN "RR"
        ELSE IF queue_variance[1] > params.high_variance_threshold * queue_variance[2]
             THEN "SJF"
        ELSE "PRIORITY"

\* next_index without the modulo: the last element has no successor and
\* stays
NextIndexNoWrap(cycle_order, current_phase) ==
    LET current_index == IndexOf(cycle_order, current_phase)
    IN  IF current_index # 0
        THEN Min(current_index + 1, Len(cycle_order))
        ELSE 1

\* next_index of _round_robin_schedule without the step to the next element
NextIndexSamePhase(cycle_order, current_phase) ==
    LET current_index == IndexOf(cycle_order, current_phase)
    IN  IF current_index # 0
        THEN ((current_index - 1) % Len(cycle_order)) + 1
        ELSE 1

\* next_index of _round_robin_schedule (1-based)
RoundRobinNextIndex(cycle_order, current_phase) ==
    LET current_index == IndexOf(cycle_order, current_phase)
    IN  IF current_index # 0
        THEN (current_index % Len(cycle_order)) + 1
        ELSE 1

\* duration of _round_robin_schedule
RoundRobinDuration(params, total_vehicles) ==
    Max(Sec(params.min_green),
        Min(Sec(params.max_green),
            Sec(params.min_green) + Sec(total_vehicles * 2)))

\* _round_robin_schedule without the except clause: the ValueError of
\* cycle_order.index escapes
RoundRobinUncaughtValueError(params, st) ==
    LET cycle_order == params.rr_cycle_order
    IN  IF IndexOf(cycle_order, st.current_phase) = 0 THEN Raise("ValueError")
        ELSE LET next_phase == cycle_order[RoundRobinNextIndex(cycle_order,
                                                               st.current_phase)]
                 total_vehicles == _get_queues_for_phase(st, next_phase)
             IN  Return(Transition(params, st, next_phase)
                        \o <<Phase(next_phase,
                                   RoundRobinDuration(params, total_vehicles),
                                   TRUE)>>)

_round_robin_schedule(params, st) ==
    LET cycle_order == params.rr_cycle_order
    IN  IF cycle_order = <<>> THEN Raise("IndexError")
        ELSE LET next_phase == cycle_order[RoundRobinNextIndex(cycle_order,
                                                               st.current_phase)]
                 total_vehicles == _get_queues_for_phase(st, next_phase)
             IN  Return(Transition(params, st, next_phase)
                        \o <<Phase(next_phase,
                                   RoundRobinDuration(params, total_vehicles),
                                   TRUE)>>)

\* phase_jobs[phase] without the expected arrivals
PhaseJobsNoArrivals(params, st, phase) ==
    _get_queues_for_phase(st, phase)

\* phase_jobs[phase] with the emergency vehicles approaching on the phase
\* counted as jobs
PhaseJobsCountingEmergencies(params, st, phase) ==
    _get_queues_for_phase(st, phase)
    + _estimate_jobs_in_horizon(st, phase, params.sjf_horizon)
    + Cardinality({i \in 1..Len(st.emergency) :
                      _get_green_phase_for_direction(st.emergency[i].direction)
                          = phase})

\* phase_jobs[phase] of _sjf_schedule (vehicles)
PhaseJobs(params, st, phase) ==
    _get_queues_for_phase(st, phase)
    + _estimate_jobs_in_horizon(st, phase, params.sjf_horizon)

\* duration of _sjf_schedule
SjfDuration(params, job_count) ==
    Max(Sec(params.min_green),
        Min(Sec(params.max_green), Sec(job_count * 3)))

_sjf_schedule(params, st) ==
    LET phases == DictKeys(params.rr_cycle_order)
        jobs   == [i \in 1..Len(phases) |-> PhaseJobs(params, st, phases[i])]
    IN  IF phases = <<>> THEN Return(<<>>)
        ELSE LET next_phase == phases[FirstMin(jobs)]
                 job_count  == PhaseJobs(params, st, next_phase)
             IN  Return(Transition(params, st, next_phase)
                        \o <<Phase(next_phase, SjfDuration(params, job_count),
                                   TRUE)>>)

\* best_direction of _priority_schedule
BestDirection(st) ==
    DirectionOrder[FirstMax([i \in 1..Len(DirectionOrder) |->
        _calculate_direction_priority(st, DirectionOrder[i])])]

\* duration of _priority_schedule: queue_length * 2.5 is 5 half seconds a
\* vehicle
PriorityDuration(params, queue_length) ==
    LET base_duration == Max(Sec(params.min_green), queue_length * 5)
    IN  Min(Sec(params.max_green), base_duration)

_priority_schedule(params, st) ==
    LET best_direction == BestDirection(st)
        next_phase     == _get_green_phase_for_direction(best_direction)
        queue_length   == Get(st.queues, best_direction, 0)
    IN  IF \E i \in 1..Len(st.emergency) :
               /\ st.emergency[i].priority = 0
               /\ \E j \in 1..Len(DirectionOrder) :
                      st.emergency[i].direction = DirectionOrder[j]
        THEN Raise("ZeroDivisionError")
        ELSE IF next_phase = "ValueError" THEN Raise("ValueError")
        ELSE Return(Transition(params, st, next_phase)
                    \o <<Phase(next_phase,
                               PriorityDuration(params, queue_length), TRUE)>>)

\* A policy argument is written as its .value.  HasValue: the argument has
\* a .value attribute, as every Enum member has, the members of
\* SchedulingPolicy and those of another Enum ("UNKNOWN"); a str, None or
\* an int ("STRING") has none.
HasValue(p) == p # "STRING"

\* the debug log of schedule's first statement reads policy.value: with
\* debug set, an argument without that attribute raises AttributeError
\* there (what the logger writes is not kept)
LogRaises(params, p) == params.debug /\ ~HasValue(p)

\* schedule checking for emergencies only under META
ScheduleEmergencyUnderMeta(params, st, p) ==
    IF LogRaises(params, p) THEN Raise("AttributeError")
    ELSE IF p = "META" /\ _has_urgent_emergency(params, st)
    THEN _handle_emergency(params, st)
    ELSE LET q == IF p = "META" THEN _select_policy(params, st) ELSE p
         IN  IF q = "RR" THEN _round_robin_schedule(params, st)
             ELSE IF q = "SJF" THEN _sjf_schedule(params, st)
             ELSE IF q = "PRIORITY" THEN _priority_schedule(params, st)
             ELSE Raise("ValueError")

\* the policy dispatched on, META standing for PRIORITY
DispatchedMetaAsPriority(params, st, p) ==
    IF LogRaises(params, p) \/ _has_urgent_emergency(params, st) THEN "none"
    ELSE IF p = "META" THEN "PRIORITY"
    ELSE p

\* the policy schedule dispatches on: "none" on the emergency path and
\* when the debug log raises
Dispatched(params, st, p) ==
    IF LogRaises(params, p) \/ _has_urgent_emergency(params, st) THEN "none"
    ELSE IF p = "META" THEN _select_policy(params, st)
    ELSE p

\* schedule honouring min_switch_interval: until sim_time reaches it, the
\* current phase is held for the rest of the interval
ScheduleHoldsWithinSwitchInterval(params, st, p) ==
    LET q == Dispatched(params, st, p)
    IN  IF LogRaises(params, p) THEN Raise("AttributeError")
        ELSE IF _has_urgent_emergency(params, st)
        THEN _handle_emergency(params, st)
        ELSE IF st.sim_time < Sec(params.min_switch_interval)
             THEN Return(<<Phase(st.current_phase,
                                 Sec(params.min_switch_interval) - st.sim_time,
                                 TRUE)>>)
        ELSE IF q = "RR" THEN _round_robin_schedule(params, st)
        ELSE IF q = "SJF" THEN _sjf_schedule(params, st)
        ELSE IF q = "PRIORITY" THEN _priority_schedule(params, st)
        ELSE Raise("ValueError")

\* (under META with debug set, explain_decision is called for the log: it
\* returns a string and changes nothing)
schedule(params, st, p) ==
    LET q == Dispatched(params, st, p)
    IN  IF LogRaises(params, p) THEN Raise("AttributeError")
        ELSE IF _has_urgent_emergency(params, st)
        THEN _handle_emergency(params, st)
        ELSE IF q = "RR" THEN _round_robin_schedule(params, st)
        ELSE IF q = "SJF" THEN _sjf_schedule(params, st)
        ELSE IF q = "PRIORITY" THEN _priority_schedule(params, st)
        ELSE Raise("ValueError")

---------------------------------------------------------------------------
(* Configurations and inputs *)

\* _get_default_params()
DefaultParams ==
    [min_green |-> 7, max_green |-> 60, yellow_duration |-> 3,
     all_red_duration |-> 1, rr_cycle_order |-> <<"NS_green", "EW_green">>,
     low_load_threshold |-> 2, high_variance_threshold |-> 4,
     sjf_horizon |-> 30, emergency_preempt_buffer |-> 10,
     min_switch_interval |-> 5, emergency_clear_duration |-> 15,
     debug |-> FALSE]

\* a second policy_params dict passed to the constructor: a short green
\* window, the cycle reversed, low thresholds, and an emergency clearance
\* shorter than min_green
AltParams ==
    [min_green |-> 2, max_green |-> 4, yellow_duration |-> 2,
     all_red_duration |-> 1, rr_cycle_order |-> <<"EW_green", "NS_green">>,
     low_load_threshold |-> 1, high_variance_threshold |-> 0,
     sjf_horizon |-> 1, emergency_preempt_buffer |-> 5,
     min_switch_interval |-> 5, emergency_clear_duration |-> 1,
     debug |-> FALSE]

ParamSets == {DefaultParams, AltParams}

\* the default parameters with the debug log switched on
DebugParams == [DefaultParams EXCEPT !.debug = TRUE]

\* the largest queue of a direction
MaxQueue == 2

\* the longest emergency list
MaxEmergencies == 2

\* the queues dicts: any set of directions may be present
QueueMaps == UNION {[K -> 0..MaxQueue] : K \in SUBSET Directions}

FullQueueMaps == [Directions -> 0..MaxQueue]

\* queues dicts with a direction either empty or full
EdgeQueueMaps == [Directions -> {0, MaxQueue}]

NoQueues == [d \in Directions |-> 0]

\* queues dicts with vehicles waiting in at most one direction
OneQueueMaps ==
    {NoQueues} \cup {[NoQueues EXCEPT ![d] = MaxQueue] : d \in Directions}

\* the waiting_times lists of a direction
WaitLists == {<<>>, <<10, 30>>}

NoWaits == [d \in Directions |-> <<>>]

\* the arrival rates of a direction (vehicles per second)
RateVals == {0, 1}

NoRates == [d \in Directions |-> 0]

EmergencyVehicle(direction, time_to_intersection, priority) ==
    [direction |-> direction, time_to_intersection |-> time_to_intersection,
     vehicle_id |-> "EMG", priority |-> priority]

\* a near vehicle of the lower priority and a far one of the higher, in
\* each direction
Vehicles ==
    {EmergencyVehicle(d, 10, 2) : d \in Directions}
    \cup {EmergencyVehicle(d, 15, 1) : d \in Directions}

EmergencyLists ==
    UNION {[1..n -> Vehicles] : n \in 0..MaxEmergencies}

IntersectionState(queues, waiting_times, arrival_rates, emergency, current_phase, sim_time) ==
    [queues |-> queues, waiting_times |-> waiting_times,
     arrival_rates |-> arrival_rates, emergency |-> emergency,
     current_phase |-> current_phase, sim_time |-> sim_time]

\* The states the caller passes in, in families: each varies the inputs
\* one part of the scheduler reads and holds the rest at zero.
StatesQueues(st) ==
    \E q \in QueueMaps, ph \in PhaseIds :
        st = IntersectionState(q, NoWaits, NoRates, <<>>, ph, 0)

StatesRates(st) ==
    \E q \in EdgeQueueMaps, r \in [Directions -> RateVals], ph \in PhaseIds :
        st = IntersectionState(q, NoWaits, r, <<>>, ph, 0)

StatesWaits(st) ==
    \E q \in FullQueueMaps, w \in [Directions -> WaitLists], ph \in PhaseIds :
        st = IntersectionState(q, w, NoRates, <<>>, ph, 0)

StatesEmergency(st) ==
    \E q \in OneQueueMaps, e \in EmergencyLists, ph \in PhaseIds :
        st = IntersectionState(q, NoWaits, NoRates, e, ph, 0)

\* waiting-time lists whose mean is no binary fraction, of up to seven
\* vehicles
LongWaitLists ==
    {<<>>, <<333, 333, 334>>, <<166, 167, 167>>, <<1, 1, 2>>,
     <<1, 1, 1, 2, 2>>, <<0, 3, 2, 3, 0, 0, 2>>}

\* emergency lists of vehicles still far away, with priorities 1, 2, 3, 6
FarEmergencyLists ==
    {<<>>,
     <<EmergencyVehicle("E", 15, 3)>>,
     <<EmergencyVehicle("E", 15, 6)>>,
     <<EmergencyVehicle("N", 15, 1), EmergencyVehicle("E", 15, 2),
       EmergencyVehicle("E", 15, 3), EmergencyVehicle("E", 15, 6)>>}

\* states whose scores differ by a rounding: waiting times in the north
\* and the east against emergency bonuses
StatesRounding(st) ==
    \E wn \in LongWaitLists, we \in LongWaitLists, e \in FarEmergencyLists,
       ph \in PhaseIds :
        st = IntersectionState(NoQueues,
                               [NoWaits EXCEPT !["N"] = wn, !["E"] = we],
                               NoRates, e, ph, 0)

\* queues dicts of the re-scheduling runs: no vehicles, or a full queue in
\* the north
ReplanQueueMaps == {NoQueues, [NoQueues EXCEPT !["N"] = MaxQueue]}

\* emergency lists of the re-scheduling runs: none, or one vehicle from
\* the east
ReplanEmergencyLists == {<<>>, <<EmergencyVehicle("E", 10, 2)>>}

StatesReplan(st) ==
    \E q \in ReplanQueueMaps, e \in ReplanEmergencyLists, ph \in PhaseIds :
        st = IntersectionState(q, NoWaits, NoRates, e, ph, 0)

\* what a caller may pass as policy: the enum's members, a member of
\* another Enum, or an object without .value
PolicyArgs == SchedulingPolicy \cup {"UNKNOWN", "STRING"}

---------------------------------------------------------------------------
(* The pygame simulation: TrafficLight and the lanes of TrafficSimulation *)

\* Direction's members, in the order of the dicts of TrafficSimulation
Direction == {"NORTH", "EAST", "SOUTH", "WEST"}

\* LightState's values
LightState == {"RED", "YELLOW", "GREEN"}

\* the fields of a TrafficLight that update reads and writes; timer in
\* milliseconds
TrafficLight(light_state, timer) == [state |-> light_state, timer |-> timer]

\* TrafficSimulation.__init__: every light RED with timer 0, then NORTH set
\* GREEN
InitialTrafficLights ==
    [d \in Direction |->
        TrafficLight(IF d = "NORTH" THEN "GREEN" ELSE "RED", 0)]

\* a lane: len(vehicle_list) and the number of its emergency vehicles
Lane(count, emergencies) == [count |-> count, emergencies |-> emergencies]

NoVehicles == [d \in Direction |-> Lane(0, 0)]

\* TrafficLight.update(dt, vehicle_count, emergency_present), with
\* yellow_duration 2000 and red_duration 3000
TrafficLightUpdate(light, dt, vehicle_count, emergency_present) ==
    IF emergency_present /\ light.state # "GREEN"
    THEN TrafficLight("GREEN", 0)
    ELSE LET timer         == light.timer + dt
             dynamic_green == Max(3000, Min(10000, vehicle_count * 1000))
         IN  CASE light.state = "GREEN" ->
                      IF timer >= dynamic_green
                      THEN TrafficLight("YELLOW", 0)
                      ELSE TrafficLight("GREEN", timer)
               [] light.state = "YELLOW" ->
                      IF timer >= 2000
                      THEN TrafficLight("RED", 0)
                      ELSE TrafficLight("YELLOW", timer)
               [] light.state = "RED" ->
                      IF timer >= 3000
                      THEN TrafficLight("GREEN", 0)
                      ELSE TrafficLight("RED", timer)

---------------------------------------------------------------------------
(* The state machine *)

\* TrafficScheduler(policy_params) and a state built by the caller; with
\* the debug log on, a state of the re-scheduling runs
Init ==
    /\ \/ /\ policy_params \in ParamSets
          /\ \/ StatesQueues(state)
             \/ StatesRates(state)
             \/ StatesWaits(state)
             \/ StatesEmergency(state)
             \/ StatesRounding(state)
       \/ /\ policy_params = DebugParams
          /\ StatesReplan(state)
    /\ last_phase_switch_time = <<>>
    /\ policy_history = <<>>
    /\ policy = "none"
    /\ selected = "none"
    /\ plan = <<>>
    /\ error = "none"
    /\ pc = "idle"
    /\ calls = <<>>
    /\ explanation = "none"
    /\ shown = <<>>
    /\ traffic_lights = InitialTrafficLights
    /\ vehicles = NoVehicles

\* schedule keeping the history of the policies it dispatched to
ScheduleRecordingPolicy(p) ==
    LET r == schedule(policy_params, state, p)
    IN  /\ plan' = r.plan
        /\ error' = r.error
        /\ selected' = Dispatched(policy_params, state, p)
        /\ policy' = p
        /\ pc' = "scheduled"
        /\ policy_history' = Append(policy_history,
                                    Dispatched(policy_params, state, p))
        /\ UNCHANGED <<state, policy_params, last_phase_switch_time,
                       explanation, shown, traffic_lights, vehicles>>

\* plan = scheduler.schedule(state, p)
Schedule(p) ==
    LET r == schedule(policy_params, state, p)
    IN  /\ plan' = r.plan
        /\ error' = r.error
        /\ selected' = Dispatched(policy_params, state, p)
        /\ policy' = p
        /\ pc' = "scheduled"
        /\ UNCHANGED <<state, policy_params, last_phase_switch_time,
                       policy_history, explanation, shown,
                   traffic_lights, vehicles>>

\* the call just made is appended to calls
Logged ==
    calls' = Append(calls, [state |-> state, policy |-> policy',
                            plan |-> plan', error |-> error'])

\* one call on each state the caller builds
Next == pc = "idle" /\ \E p \in PolicyArgs : Schedule(p) /\ Logged

Spec == Init /\ [][Next]_vars

---------------------------------------------------------------------------
(* Re-scheduling: the caller applies the first phase of the plan with      *)
(* simulate_one_step and calls schedule again on the same scheduler.       *)

\* the most calls made on one scheduler
MaxCalls == 3

\* simulate_one_step running the plan to its end: the last phase, after
\* all the durations
SimulateWholePlan(st, action_plan) ==
    IF action_plan = <<>> THEN st
    ELSE LET next_phase == action_plan[Len(action_plan)]
         IN  IntersectionState(st.queues, st.waiting_times, st.arrival_rates,
                               st.emergency, next_phase.phase,
                               st.sim_time
                               + SumSeq([i \in 1..Len(action_plan) |->
                                            action_plan[i].duration]))

simulate_one_step(st, action_plan) ==
    IF action_plan = <<>> THEN st
    ELSE LET next_phase == action_plan[1]
         IN  IntersectionState(st.queues, st.waiting_times, st.arrival_rates,
                               st.emergency, next_phase.phase,
                               st.sim_time + next_phase.duration)

\* TrafficScheduler(policy_params) and the first state of a run
InitReplan ==
    /\ policy_params \in ParamSets
    /\ StatesReplan(state)
    /\ last_phase_switch_time = <<>>
    /\ policy_history = <<>>
    /\ policy = "none"
    /\ selected = "none"
    /\ plan = <<>>
    /\ error = "none"
    /\ pc = "idle"
    /\ calls = <<>>
    /\ explanation = "none"
    /\ shown = <<>>
    /\ traffic_lights = InitialTrafficLights
    /\ vehicles = NoVehicles

\* state = simulate_one_step(state, plan), on the plan the last call
\* returned
SimulateOneStep ==
    /\ pc = "scheduled"
    /\ error = "none"
    /\ state' = simulate_one_step(state, plan)
    /\ pc' = "stepped"
    /\ UNCHANGED <<policy_params, last_phase_switch_time, policy_history,
                   policy, selected, plan, error, calls, explanation, shown,
                   traffic_lights, vehicles>>

\* the caller's loop: schedule, then either apply the first phase or ask
\* again
NextReplan ==
    \/ Len(calls) < MaxCalls /\ \E p \in SchedulingPolicy : Schedule(p) /\ Logged
    \/ SimulateOneStep

SpecReplan == InitReplan /\ [][NextReplan]_vars

---------------------------------------------------------------------------
(* One call and one step, also on a scheduler whose policy_params have an  *)
(* empty rr_cycle_order.                                                   *)

\* the default parameters with an empty round-robin cycle
EmptyCycleParams == [DefaultParams EXCEPT !.rr_cycle_order = <<>>]

\* nothing has been called yet on the scheduler just constructed
Fresh ==
    /\ last_phase_switch_time = <<>>
    /\ policy_history = <<>>
    /\ policy = "none"
    /\ selected = "none"
    /\ plan = <<>>
    /\ error = "none"
    /\ pc = "idle"
    /\ calls = <<>>
    /\ explanation = "none"
    /\ shown = <<>>
    /\ traffic_lights = InitialTrafficLights
    /\ vehicles = NoVehicles

InitStep ==
    /\ policy_params \in {DefaultParams, EmptyCycleParams}
    /\ (StatesQueues(state) \/ StatesReplan(state))
    /\ Fresh

\* plan = scheduler.schedule(state, p); state = simulate_one_step(state,
\* plan)
NextStep ==
    \/ Next
    \/ SimulateOneStep

SpecStep == InitStep /\ [][NextStep]_vars

---------------------------------------------------------------------------
(* Calls on states a caller should not pass: a negative ETA, a negative    *)
(* waiting time, a sim_time that goes back, a direction that is none of    *)
(* the four, a priority of 0.                                              *)

\* emergency lists: none, or a vehicle with a negative time_to_intersection
InvalidEmergencyLists == {<<>>, <<EmergencyVehicle("E", -1, 1)>>}

\* waiting_times dicts: none, or a negative waiting time in the north
InvalidWaitMaps == {NoWaits, [NoWaits EXCEPT !["N"] = <<-10>>]}

\* the sim_time values of the states passed (half seconds)
SimTimes == {0, Sec(10)}

StatesInvalid(st) ==
    \E q \in ReplanQueueMaps, w \in InvalidWaitMaps,
       e \in InvalidEmergencyLists, ph \in PhaseIds, t \in SimTimes :
        st = IntersectionState(q, w, NoRates, e, ph, t)

\* emergency lists: an urgent vehicle from an unknown direction, or a far
\* vehicle of priority 0
MalformedEmergencyLists ==
    {<<EmergencyVehicle("X", 5, 1)>>, <<EmergencyVehicle("E", 15, 0)>>}

StatesMalformed(st) ==
    \E q \in ReplanQueueMaps, e \in MalformedEmergencyLists, ph \in PhaseIds :
        st = IntersectionState(q, NoWaits, NoRates, e, ph, 0)

InitInvalid ==
    /\ policy_params \in ParamSets
    /\ (StatesInvalid(state) \/ StatesMalformed(state))
    /\ Fresh

\* the caller builds the next state with another sim_time
SetSimTime(t) ==
    /\ pc = "scheduled"
    /\ t # state.sim_time
    /\ state' = [state EXCEPT !.sim_time = t]
    /\ pc' = "idle"
    /\ UNCHANGED <<policy_params, last_phase_switch_time, policy_history,
                   policy, selected, plan, error, calls, explanation, shown,
                   traffic_lights, vehicles>>

NextInvalid ==
    \/ /\ pc = "idle"
       /\ Len(calls) < MaxCalls
       /\ \E p \in SchedulingPolicy : Schedule(p) /\ Logged
    \/ \E t \in SimTimes : SetSimTime(t)

SpecInvalid == InitInvalid /\ [][NextInvalid]_vars

---------------------------------------------------------------------------
(* plans chained by a caller that shows their phases on the lights *)

\* the latest sim_time at which the caller still asks for a plan, in half
\* seconds
MaxSimTime == 40

\* queues the caller may observe between two calls
ChainQueueMaps == ReplanQueueMaps \union {[NoQueues EXCEPT !["E"] = MaxQueue]}

InitChain ==
    /\ policy_params = DefaultParams
    /\ \E q \in ChainQueueMaps, e \in ReplanEmergencyLists, ph \in PhaseIds :
           state = IntersectionState(q, NoWaits, NoRates, e, ph, 0)
    /\ Fresh

\* the call sim.set_phase(phase.phase, phase.duration)
SetPhaseCall(phase) == [phase |-> phase.phase, duration |-> phase.duration]

\* the phase on the lights: the last one set from the plan, or the one
\* the state was built with
Showing ==
    IF shown = <<>> THEN state.current_phase ELSE shown[Len(shown)].phase

\* one iteration of apply_action_plan: sim.set_phase(phase.phase,
\* phase.duration) for the next phase of the plan
ShowNext ==
    /\ pc = "scheduled"
    /\ error = "none"
    /\ Len(shown) < Len(plan)
    /\ shown' = Append(shown, SetPhaseCall(plan[Len(shown) + 1]))
    /\ UNCHANGED <<state, policy_params, last_phase_switch_time,
                   policy_history, policy, selected, plan, error, pc, calls,
                   explanation,
                   traffic_lights, vehicles>>

\* at a phase boundary the caller drops the rest of the plan and builds
\* the next state: current_phase is the phase showing, sim_time has moved
\* on by the phases shown, queues and emergencies are observed anew
Observe(q, e) ==
    LET elapsed == SumSeq([i \in 1..Len(shown) |-> shown[i].duration])
    IN  /\ pc = "scheduled"
        /\ error = "none"
        /\ state.sim_time + elapsed <= MaxSimTime
        /\ state' = IntersectionState(q, NoWaits, NoRates, e, Showing,
                                      state.sim_time + elapsed)
        /\ plan' = <<>>
        /\ shown' = <<>>
        /\ pc' = "idle"
        /\ UNCHANGED <<policy_params, last_phase_switch_time, policy_history,
                       policy, selected, error, calls, explanation,
                   traffic_lights, vehicles>>

NextChain ==
    \/ pc = "idle" /\ \E p \in SchedulingPolicy : Schedule(p) /\ UNCHANGED calls
    \/ ShowNext
    \/ \E q \in ChainQueueMaps, e \in ReplanEmergencyLists : Observe(q, e)

SpecChain == InitChain /\ [][NextChain]_vars

---------------------------------------------------------------------------
(* Round Robin plans, each executed to completion before the next call *)

RoundRobinQueueMaps == ChainQueueMaps \union {[d \in Directions |-> MaxQueue]}

\* no emergency, or one from the east that is still far away
RoundRobinEmergencyLists == {<<>>, <<EmergencyVehicle("E", 15, 1)>>}

\* the states of these runs: any phase, no urgent emergency
StatesRoundRobin(st) ==
    /\ \E q \in RoundRobinQueueMaps, e \in RoundRobinEmergencyLists, ph \in PhaseIds :
           st = IntersectionState(q, NoWaits, NoRates, e, ph, 0)
    /\ ~_has_urgent_emergency(DefaultParams, st)

InitRoundRobin ==
    /\ policy_params = DefaultParams
    /\ StatesRoundRobin(state)
    /\ Fresh

\* apply_action_plan on the whole plan: the lights end on its last phase
\* and the time of all its phases has passed; the caller then observes
\* the queues and emergencies anew
ExecutePlan(q, e) ==
    LET elapsed == SumSeq([i \in 1..Len(plan) |-> plan[i].duration])
        next    == IntersectionState(q, NoWaits, NoRates, e,
                                     plan[Len(plan)].phase,
                                     state.sim_time + elapsed)
    IN  /\ pc = "scheduled"
        /\ error = "none"
        /\ plan # <<>>
        /\ ~_has_urgent_emergency(policy_params, next)
        /\ state' = next
        /\ pc' = "idle"
        /\ UNCHANGED <<policy_params, last_phase_switch_time, policy_history,
                       policy, selected, plan, error, calls, explanation,
                       shown,
                   traffic_lights, vehicles>>

NextRoundRobin ==
    \/ pc = "idle" /\ Len(calls) < MaxCalls /\ Schedule("RR") /\ Logged
    \/ \E q \in RoundRobinQueueMaps, e \in RoundRobinEmergencyLists : ExecutePlan(q, e)

SpecRoundRobin == InitRoundRobin /\ [][NextRoundRobin]_vars

---------------------------------------------------------------------------
(* one call on states with emergencies, queues dicts with missing
   directions included *)

\* queues dicts with vehicles in at most one direction, with north alone,
\* and the empty dict
UrgencyQueueMaps ==
    OneQueueMaps \cup {[d \in {"N"} |-> MaxQueue], [d \in {} |-> 0]}

StatesUrgency(st) ==
    \E q \in UrgencyQueueMaps, e \in EmergencyLists, ph \in PhaseIds :
        st = IntersectionState(q, NoWaits, NoRates, e, ph, 0)

InitUrgency ==
    /\ policy_params \in ParamSets
    /\ StatesUrgency(state)
    /\ Fresh

NextUrgency == pc = "idle" /\ \E p \in SchedulingPolicy : Schedule(p) /\ Logged

SpecUrgency == InitUrgency /\ [][NextUrgency]_vars

---------------------------------------------------------------------------
(* apply_action_plan on a sim that records its set_phase calls *)

RECURSIVE apply_action_plan(_, _)
\* apply_action_plan handing the first phase only to the sim
ApplyFirstPhaseOnly(sim, action_plan) ==
    IF action_plan = <<>> THEN sim
    ELSE Append(sim, SetPhaseCall(Head(action_plan)))

\* the loop of apply_action_plan; sim is the list of set_phase calls the
\* sim has received
apply_action_plan(sim, action_plan) ==
    IF action_plan = <<>> THEN sim
    ELSE apply_action_plan(Append(sim, SetPhaseCall(Head(action_plan))),
                           Tail(action_plan))

InitApply ==
    /\ policy_params \in {DefaultParams, EmptyCycleParams}
    /\ (StatesQueues(state) \/ StatesReplan(state))
    /\ Fresh

\* apply_action_plan(sim, plan) on the plan the call returned
ApplyActionPlan ==
    /\ pc = "scheduled"
    /\ error = "none"
    /\ shown' = apply_action_plan(shown, plan)
    /\ pc' = "applied"
    /\ UNCHANGED <<state, policy_params, last_phase_switch_time,
                   policy_history, policy, selected, plan, error, calls,
                   explanation,
                   traffic_lights, vehicles>>

NextApply ==
    \/ Next
    \/ ApplyActionPlan

SpecApply == InitApply /\ [][NextApply]_vars

---------------------------------------------------------------------------
(* The pygame simulation's frames *)

\* the most vehicles a lane holds in these runs
MaxVehicles == 4

\* the milliseconds clock.tick returns for a frame
FrameTimes == {1000, 2000}

\* the lanes that receive vehicles in these runs
SpawnLanes == {"NORTH", "EAST"}

InitLights ==
    /\ policy_params = DefaultParams
    /\ state = IntersectionState(NoQueues, NoWaits, NoRates, <<>>, "all_red", 0)
    /\ Fresh

\* spawn_vehicle(direction) when it spawns (is_emergency drawn at
\* random), or spawn_emergency_vehicle(direction)
SpawnVehicle(direction, is_emergency) ==
    /\ vehicles[direction].count < MaxVehicles
    /\ vehicles' = [vehicles EXCEPT ![direction] =
                        Lane(@.count + 1,
                             @.emergencies + IF is_emergency THEN 1 ELSE 0)]
    /\ UNCHANGED <<state, policy_params, last_phase_switch_time,
                   policy_history, policy, selected, plan, error, pc, calls,
                   explanation, shown, traffic_lights>>

\* what may leave a lane during one frame: any number of its ordinary
\* vehicles and any number of its emergency vehicles, as the number of
\* vehicles leaving and the number of emergency vehicles among them
Leaving(lane) ==
    {Lane(v + e, e) : v \in 0..(lane.count - lane.emergencies),
                      e \in 0..lane.emergencies}

\* a lane after vehicle_list.remove(vehicle) for each vehicle that has
\* passed through
LaneAfter(lane, gone) ==
    Lane(lane.count - gone.count, lane.emergencies - gone.emergencies)

\* update_vehicles(dt): each lane's light is updated with dt, the lane's
\* vehicle count and whether it holds an emergency vehicle; then the
\* vehicles move and those that have passed through are removed (where
\* the vehicles are is not kept: gone says which ones pass through)
UpdateVehicles(dt, gone) ==
    /\ traffic_lights' =
           [d \in Direction |->
               TrafficLightUpdate(traffic_lights[d], dt, vehicles[d].count,
                                  vehicles[d].emergencies > 0)]
    /\ vehicles' = [d \in Direction |->
                       IF d \in SpawnLanes THEN LaneAfter(vehicles[d], gone[d])
                       ELSE vehicles[d]]
    /\ UNCHANGED <<state, policy_params, last_phase_switch_time,
                   policy_history, policy, selected, plan, error, pc, calls,
                   explanation, shown>>

NextLights ==
    \/ \E d \in SpawnLanes, e \in BOOLEAN : SpawnVehicle(d, e)
    \/ \E dt \in FrameTimes, north \in Leaving(vehicles["NORTH"]),
          east \in Leaving(vehicles["EAST"]) :
           UpdateVehicles(dt, [d \in SpawnLanes |->
                                  IF d = "NORTH" THEN north ELSE east])

SpecLights == InitLights /\ [][NextLights]_vars

---------------------------------------------------------------------------
(* explain_decision, called on the states a caller builds *)

\* f"{x:.1f}" for the fraction x = num / den, x >= 0: x rounded to one
\* decimal, a tie going to the even digit (the ties that occur, such as
\* 0.25, are exact in binary)
Format1f(num, den) ==
    LET q      == (10 * num) \div den
        r      == (10 * num) % den
        tenths == IF 2 * r < den THEN q
                  ELSE IF 2 * r > den THEN q + 1
                  ELSE IF q % 2 = 0 THEN q ELSE q + 1
    IN  ToString(tenths \div 10) \o "." \o ToString(tenths % 10)

\* explain_decision wording its answer after the policy argument
ExplainNamingArgument(params, st, p) ==
    LET avg_queue      == _compute_average_queue_length(st)
        queue_variance == _compute_queue_variance(st)
    IN  IF st.emergency # <<>>
        THEN "Emergency vehicles present - using Priority scheduling"
        ELSE IF p = "RR"
        THEN "Low traffic load (avg="
             \o Format1f(avg_queue[1], avg_queue[2])
             \o ") - using Round Robin"
        ELSE IF p = "SJF"
        THEN "High queue variance ("
             \o Format1f(queue_variance[1], queue_variance[2])
             \o ") - using SJF to reduce backlog"
        ELSE "Balanced conditions (avg="
             \o Format1f(avg_queue[1], avg_queue[2])
             \o ", var="
             \o Format1f(queue_variance[1], queue_variance[2])
             \o ") - using Priority"

explain_decision(params, st, p) ==
    LET avg_queue      == _compute_average_queue_length(st)
        queue_variance == _compute_queue_variance(st)
    IN  IF st.emergency # <<>>
        THEN "Emergency vehicles present - using Priority scheduling"
        ELSE IF avg_queue[1] < params.low_load_threshold * avg_queue[2]
        THEN "Low traffic load (avg="
             \o Format1f(avg_queue[1], avg_queue[2])
             \o ") - using Round Robin"
        ELSE IF queue_variance[1] > params.high_variance_threshold * queue_variance[2]
        THEN "High queue variance ("
             \o Format1f(queue_variance[1], queue_variance[2])
             \o ") - using SJF to reduce backlog"
        ELSE "Balanced conditions (avg="
             \o Format1f(avg_queue[1], avg_queue[2])
             \o ", var="
             \o Format1f(queue_variance[1], queue_variance[2])
             \o ") - using Priority"

InitExplain ==
    /\ policy_params \in ParamSets
    /\ (StatesQueues(state) \/ StatesReplan(state))
    /\ Fresh

\* explanation = scheduler.explain_decision(state, p)
Explain(p) ==
    /\ pc = "idle"
    /\ explanation' = explain_decision(policy_params, state, p)
    /\ policy' = p
    /\ pc' = "explained"
    /\ UNCHANGED <<state, policy_params, last_phase_switch_time,
                   policy_history, selected, plan, error, calls, shown,
                   traffic_lights, vehicles>>

NextExplain == \E p \in SchedulingPolicy : Explain(p)

SpecExplain == InitExplain /\ [][NextExplain]_vars

---------------------------------------------------------------------------
(* Vocabulary of the properties *)

\* schedule was called with a member of SchedulingPolicy
Called == pc = "scheduled" /\ policy \in SchedulingPolicy

\* ... and returned a plan
Returned == Called /\ error = "none"

IsGreen(phase) == phase \in {"NS_green", "EW_green"}

IsYellow(phase) == phase \in {"NS_yellow", "EW_yellow"}

OtherGreen(phase) == IF phase = "NS_green" THEN "EW_green" ELSE "NS_green"

YellowOf(green) == IF green = "NS_green" THEN "NS_yellow" ELSE "EW_yellow"

\* the green that serves a direction
GreenServing(direction) ==
    CASE direction = "N" -> "NS_green"
      [] direction = "S" -> "NS_green"
      [] direction = "E" -> "EW_green"
      [] direction = "W" -> "EW_green"

QueueOf(direction) ==
    IF direction \in DOMAIN state.queues THEN state.queues[direction] ELSE 0

\* the positions of the urgent emergencies of state.emergency
UrgentEmergencies ==
    {i \in 1..Len(state.emergency) :
        \/ state.emergency[i].time_to_intersection
               <= policy_params.emergency_preempt_buffer
        \/ QueueOf(state.emergency[i].direction) > 0}

LastPhase == plan[Len(plan)]

PlanPhases == [i \in 1..Len(plan) |-> plan[i].phase]

Clip(x, lo, hi) == IF x < lo THEN lo ELSE IF x > hi THEN hi ELSE x

MinGreen == 2 * policy_params.min_green

MaxGreen == 2 * policy_params.max_green

---------------------------------------------------------------------------
(* C1 *)

\* C1: every green phase of a plan returned by schedule, for any policy and
\* also on the emergency path, has min_green <= duration <= max_green.
C1_GreenWithinBounds ==
    Returned =>
        \A i \in 1..Len(plan) :
            IsGreen(plan[i].phase) =>
                MinGreen <= plan[i].duration /\ plan[i].duration <= MaxGreen

---------------------------------------------------------------------------
(* C2 *)

\* C2: when current_phase is a green and the plan's target is the green of
\* the other axis, the plan is exactly [yellow of the current axis, all_red,
\* target green].
C2_CrossAxisPlan ==
    (/\ Returned
     /\ IsGreen(state.current_phase)
     /\ plan # <<>>
     /\ LastPhase.phase = OtherGreen(state.current_phase))
    => PlanPhases = <<YellowOf(state.current_phase), "all_red",
                      OtherGreen(state.current_phase)>>

\* a planner (here SJF) has switched from NS_green to EW_green
C2_Witness ==
    /\ Returned
    /\ state.current_phase = "NS_green"
    /\ PlanPhases = <<"NS_yellow", "all_red", "EW_green">>
    /\ selected = "SJF"

---------------------------------------------------------------------------
(* C3 *)

\* C3 as stated: with an urgent emergency the plan ends in a non-preemptable
\* green that serves the direction of an urgent emergency.
C3_ServesUrgentEmergency ==
    (Returned /\ UrgentEmergencies # {}) =>
        /\ plan # <<>>
        /\ IsGreen(LastPhase.phase)
        /\ LastPhase.preemptable = FALSE
        /\ \E i \in UrgentEmergencies :
               LastPhase.phase = GreenServing(state.emergency[i].direction)

\* C3 amended: with an urgent emergency the plan ends in a non-preemptable
\* green that serves the direction of an emergency with the smallest
\* time_to_intersection; that is the direction of an urgent emergency
\* whenever some emergency is within emergency_preempt_buffer or the
\* direction served by the earliest emergency has a queue.
C3_ServesEarliestEmergency ==
    (Returned /\ UrgentEmergencies # {}) =>
        /\ plan # <<>>
        /\ IsGreen(LastPhase.phase)
        /\ LastPhase.preemptable = FALSE
        /\ \E i \in 1..Len(state.emergency) :
               /\ \A j \in 1..Len(state.emergency) :
                      state.emergency[i].time_to_intersection
                          <= state.emergency[j].time_to_intersection
               /\ LastPhase.phase = GreenServing(state.emergency[i].direction)
               /\ (\/ \E j \in 1..Len(state.emergency) :
                         state.emergency[j].time_to_intersection
                             <= policy_params.emergency_preempt_buffer
                    \/ QueueOf(state.emergency[i].direction) > 0)
                   => i \in UrgentEmergencies

\* the only urgent emergency waits behind a queue on one axis, an earlier
\* one approaches on the other axis, and the plan serves the earlier one
C3_Witness ==
    /\ Returned
    /\ Len(state.emergency) = 2
    /\ UrgentEmergencies = {1}
    /\ state.emergency[2].time_to_intersection
           < state.emergency[1].time_to_intersection
    /\ LastPhase.phase = GreenServing(state.emergency[2].direction)
    /\ LastPhase.phase # GreenServing(state.emergency[1].direction)
    /\ LastPhase.preemptable = FALSE

---------------------------------------------------------------------------
(* C4 *)

\* C4: on the emergency path with emergencies in more than one direction,
\* the plan's green serves the direction of the emergency with the smallest
\* time_to_intersection, the first of the list among equals, whatever the
\* priorities.
C4_EarliestAcrossDirections ==
    (/\ Returned
     /\ UrgentEmergencies # {}
     /\ Cardinality({state.emergency[i].direction :
                        i \in 1..Len(state.emergency)}) > 1)
    => \E i \in 1..Len(state.emergency) :
          /\ \A j \in 1..Len(state.emergency) :
                 state.emergency[i].time_to_intersection
                     <= state.emergency[j].time_to_intersection
          /\ \A j \in 1..(i - 1) :
                 state.emergency[j].time_to_intersection
                     > state.emergency[i].time_to_intersection
          /\ plan # <<>>
          /\ LastPhase.phase = GreenServing(state.emergency[i].direction)

\* two emergencies with the same ETA on different axes: the first is served
C4_Witness ==
    /\ Returned
    /\ Len(state.emergency) = 2
    /\ UrgentEmergencies # {}
    /\ state.emergency[1].time_to_intersection
           = state.emergency[2].time_to_intersection
    /\ GreenServing(state.emergency[1].direction)
           # GreenServing(state.emergency[2].direction)
    /\ LastPhase.phase = GreenServing(state.emergency[1].direction)

---------------------------------------------------------------------------
(* C5 *)

\* C5: with an urgent emergency, schedule returns the emergency preemption
\* plan whichever of RR, SJF, PRIORITY, META is requested.
C5_EmergencyShortCircuit ==
    (Called /\ UrgentEmergencies # {}) =>
        /\ error = "none"
        /\ selected = "none"
        /\ plan # <<>>
        /\ LastPhase.preemptable = FALSE
        /\ \A p \in SchedulingPolicy :
               schedule(policy_params, state, p) = [plan |-> plan, error |-> "none"]

\* an urgent emergency was scheduled under RR, where Round Robin itself
\* would have planned the other green
C5_Witness ==
    /\ Called
    /\ policy = "RR"
    /\ UrgentEmergencies # {}
    /\ plan # <<>>
    /\ LastPhase.preemptable = FALSE
    /\ _round_robin_schedule(policy_params, state).plan # plan
    /\ _sjf_schedule(policy_params, state).plan # plan

---------------------------------------------------------------------------
(* C6 *)

\* the queue lengths present in state.queues, their number and their sum
QueueKeys == DOMAIN state.queues

QueueCount == Cardinality(QueueKeys)

QueueSum == SumValues(state.queues)

\* mean < low_load_threshold, the mean being QueueSum / QueueCount (0 for
\* no queues)
MeanBelowThreshold ==
    IF QueueCount = 0 THEN 0 < policy_params.low_load_threshold
    ELSE QueueSum < policy_params.low_load_threshold * QueueCount

MeanAtThreshold ==
    QueueCount > 0 /\ QueueSum = policy_params.low_load_threshold * QueueCount

\* n^3 times the population variance: the sum over the queues of
\* (n * q - sum)^2 (0 for fewer than two queues)
VarianceTimesCube ==
    IF QueueCount < 2 THEN 0
    ELSE SumValues([d \in QueueKeys |->
            (QueueCount * state.queues[d] - QueueSum)
            * (QueueCount * state.queues[d] - QueueSum)])

VarianceAboveThreshold ==
    VarianceTimesCube
        > policy_params.high_variance_threshold
          * QueueCount * QueueCount * QueueCount

VarianceAtThreshold ==
    VarianceTimesCube
        = policy_params.high_variance_threshold
          * QueueCount * QueueCount * QueueCount

\* the policy the claim names for the current state
C6_Expected ==
    IF state.emergency # <<>> THEN "PRIORITY"
    ELSE IF MeanBelowThreshold THEN "RR"
    ELSE IF VarianceAboveThreshold THEN "SJF"
    ELSE "PRIORITY"

\* C6: _select_policy returns PRIORITY for a non-empty emergency list, else
\* RR when mean < low_load_threshold, else SJF when variance >
\* high_variance_threshold, else PRIORITY; both comparisons are strict.
C6_SelectPolicy ==
    /\ _select_policy(policy_params, state) = C6_Expected
    /\ (Called /\ policy = "META" /\ UrgentEmergencies = {})
           => selected = C6_Expected

\* META was resolved on a state whose mean and variance both sit exactly on
\* their thresholds: neither RR nor SJF is selected
C6_Witness ==
    /\ Called
    /\ policy = "META"
    /\ state.emergency = <<>>
    /\ MeanAtThreshold
    /\ VarianceAtThreshold
    /\ selected = "PRIORITY"

---------------------------------------------------------------------------
(* C7 *)

\* the cycle element the claim names as Round Robin's target
C7_Target ==
    LET cycle == policy_params.rr_cycle_order
    IN  IF \E i \in 1..Len(cycle) : cycle[i] = state.current_phase
        THEN LET i == CHOOSE k \in 1..Len(cycle) : cycle[k] = state.current_phase
             IN  cycle[(i % Len(cycle)) + 1]
        ELSE cycle[1]

\* the sum of the queues of the two directions a green serves
AxisQueue(green) ==
    IF green = "NS_green" THEN QueueOf("N") + QueueOf("S")
    ELSE QueueOf("E") + QueueOf("W")

\* C7: Round Robin's green is the cycle element after current_phase
\* (wrapping), or element 0 when current_phase is not in the cycle; it is
\* preemptable and lasts clip(min_green + 2 * axis queue, min_green,
\* max_green).
C7_RoundRobin ==
    (Returned /\ selected = "RR") =>
        /\ plan # <<>>
        /\ LastPhase.phase = C7_Target
        /\ LastPhase.preemptable = TRUE
        /\ LastPhase.duration
              = Clip(MinGreen + 2 * (2 * AxisQueue(C7_Target)), MinGreen, MaxGreen)

\* Round Robin wrapped from the last cycle element to the first, with a
\* duration strictly inside the green window
C7_Witness ==
    /\ Returned
    /\ selected = "RR"
    /\ state.current_phase
           = policy_params.rr_cycle_order[Len(policy_params.rr_cycle_order)]
    /\ LastPhase.phase = policy_params.rr_cycle_order[1]
    /\ LastPhase.duration > MinGreen
    /\ LastPhase.duration < MaxGreen

---------------------------------------------------------------------------
(* C8 *)

RateOf(direction) ==
    IF direction \in DOMAIN state.arrival_rates
    THEN state.arrival_rates[direction] ELSE 0

\* jobs(p) of the claim, in vehicles
C8_Jobs(green) ==
    IF green = "NS_green"
    THEN AxisQueue(green) + RateOf("N") * policy_params.sjf_horizon
                          + RateOf("S") * policy_params.sjf_horizon
    ELSE AxisQueue(green) + RateOf("E") * policy_params.sjf_horizon
                          + RateOf("W") * policy_params.sjf_horizon

\* C8: SJF's green is the phase of rr_cycle_order with the fewest jobs, the
\* earliest in the cycle among equals; it is preemptable and lasts
\* clip(3 * jobs, min_green, max_green).
C8_ShortestJobFirst ==
    (Returned /\ selected = "SJF") =>
        LET cycle == policy_params.rr_cycle_order
        IN  /\ plan # <<>>
            /\ \E i \in 1..Len(cycle) :
                   /\ LastPhase.phase = cycle[i]
                   /\ \A j \in 1..Len(cycle) : C8_Jobs(cycle[i]) <= C8_Jobs(cycle[j])
                   /\ \A j \in 1..(i - 1) : C8_Jobs(cycle[j]) > C8_Jobs(cycle[i])
            /\ LastPhase.preemptable = TRUE
            /\ LastPhase.duration
                  = Clip(2 * (3 * C8_Jobs(LastPhase.phase)), MinGreen, MaxGreen)

\* SJF broke a tie between the two axes, with arrivals counted in the jobs
C8_Witness ==
    /\ Returned
    /\ selected = "SJF"
    /\ C8_Jobs("NS_green") = C8_Jobs("EW_green")
    /\ C8_Jobs("NS_green") > AxisQueue("NS_green")
    /\ LastPhase.phase = policy_params.rr_cycle_order[1]
    /\ LastPhase.duration > MinGreen
    /\ LastPhase.duration < MaxGreen

---------------------------------------------------------------------------
(* C9 *)

WaitsOf(direction) ==
    IF direction \in DOMAIN state.waiting_times
    THEN state.waiting_times[direction] ELSE <<>>

RECURSIVE C9_Sum(_, _)
\* x + terms[1] + terms[2] + ... in double precision
C9_Sum(x, terms) ==
    IF terms = <<>> THEN x ELSE C9_Sum(Add(x, Head(terms)), Tail(terms))

\* score(d) of the claim in double precision: 2 * queue + mean wait / 10
\* + 100 / priority for each emergency of the direction
C9_Score(direction) ==
    LET waits == WaitsOf(direction)
        own   == SelectSeq(state.emergency, LAMBDA ev : ev.direction = direction)
        mean  == IF waits = <<>> THEN <<>>
                 ELSE <<Divide(Divide(FromInt(SumSeq(waits)), Len(waits)), 10)>>
    IN  C9_Sum(FromInt(2 * QueueOf(direction)),
               mean \o [i \in 1..Len(own) |->
                            Divide(FromInt(100), own[i].priority)])

\* the directions that come before d in the order N, E, S, W
Before(direction) ==
    CASE direction = "N" -> {}
      [] direction = "E" -> {"N"}
      [] direction = "S" -> {"N", "E"}
      [] direction = "W" -> {"N", "E", "S"}

\* C9: Priority's green serves the direction of the highest score, the
\* first in the order N, E, S, W among equals; it is preemptable and lasts
\* clip(max(min_green, 2.5 * queue of that direction), min_green, max_green).
C9_Priority ==
    (Returned /\ selected = "PRIORITY") =>
        LET score == [e \in Directions |-> C9_Score(e)]
        IN  \E d \in Directions :
            /\ \A e \in Directions : ~Less(score[d], score[e])
            /\ \A e \in Before(d) : Less(score[e], score[d])
            /\ plan # <<>>
            /\ LastPhase.phase = GreenServing(d)
            /\ LastPhase.preemptable = TRUE
            /\ LastPhase.duration
                  = Clip(Max(MinGreen, 5 * QueueOf(d)), MinGreen, MaxGreen)

\* Priority broke a tie between E and S, E owing its score to waiting times
\* and S to its queue, and gave a duration inside the green window
C9_Witness ==
    /\ Returned
    /\ selected = "PRIORITY"
    /\ C9_Score("E") = C9_Score("S")
    /\ Less(C9_Score("N"), C9_Score("E"))
    /\ ~Less(C9_Score("E"), C9_Score("W"))
    /\ WaitsOf("E") # <<>>
    /\ QueueOf("S") > QueueOf("E")
    /\ LastPhase.phase = "EW_green"
    /\ LastPhase.duration > MinGreen
    /\ LastPhase.duration < MaxGreen

\* Priority chose E over N by a rounding: N's mean wait / 10 and E's
\* 100 / priority are the same real number, and E's double is the greater
C9_WitnessRounding ==
    /\ Returned
    /\ selected = "PRIORITY"
    /\ Len(state.emergency) = 1
    /\ state.emergency[1].direction = "E"
    /\ WaitsOf("N") # <<>>
    /\ WaitsOf("E") = <<>>
    /\ SumSeq(WaitsOf("N")) * state.emergency[1].priority
           = 1000 * Len(WaitsOf("N"))
    /\ Less(C9_Score("N"), C9_Score("E"))
    /\ LastPhase.phase = "EW_green"

\* Priority ranked two directions by their emergency bonus alone
C9_WitnessBonus ==
    /\ Returned
    /\ selected = "PRIORITY"
    /\ Len(state.emergency) = 2
    /\ state.emergency[1].priority > state.emergency[2].priority
    /\ LastPhase.phase = GreenServing(state.emergency[2].direction)
    /\ LastPhase.phase # GreenServing(state.emergency[1].direction)

---------------------------------------------------------------------------
(* C10 *)

\* C10: in every plan schedule returns, a yellow lasts yellow_duration and
\* an all_red lasts all_red_duration.
C10_TransitionDurations ==
    (pc = "scheduled" /\ error = "none") =>
        \A i \in 1..Len(plan) :
            /\ IsYellow(plan[i].phase)
                   => plan[i].duration = 2 * policy_params.yellow_duration
            /\ plan[i].phase = "all_red"
                   => plan[i].duration = 2 * policy_params.all_red_duration

\* a plan with a yellow and an all_red was returned under the parameters
\* that differ from the defaults
C10_Witness ==
    /\ Returned
    /\ policy_params.yellow_duration # DefaultParams.yellow_duration
    /\ Len(plan) = 3
    /\ IsYellow(plan[1].phase)
    /\ plan[2].phase = "all_red"
    /\ state.waiting_times # NoWaits

---------------------------------------------------------------------------
(* C11 *)

\* schedule returned a plan, whatever was passed as policy
Planned == pc = "scheduled" /\ error = "none"

\* C11: yellow and all_red phases and the green of an emergency preemption
\* plan are not preemptable; the green appended by Round Robin, SJF and
\* Priority, also when META chose them, is preemptable.
C11_PreemptableByKind ==
    Planned =>
        \A i \in 1..Len(plan) :
            /\ (IsYellow(plan[i].phase) \/ plan[i].phase = "all_red")
                   => plan[i].preemptable = FALSE
            /\ (IsGreen(plan[i].phase) /\ UrgentEmergencies # {})
                   => plan[i].preemptable = FALSE
            /\ (IsGreen(plan[i].phase) /\ selected \in {"RR", "SJF", "PRIORITY"})
                   => plan[i].preemptable = TRUE
            /\ IsGreen(plan[i].phase)
                   => (UrgentEmergencies # {} \/ selected \in {"RR", "SJF", "PRIORITY"})

\* an emergency preemption plan with a yellow, an all_red and its green,
\* returned to a caller that asked for Round Robin
C11_Witness ==
    /\ Returned
    /\ policy = "RR"
    /\ UrgentEmergencies # {}
    /\ Len(plan) = 3
    /\ IsYellow(plan[1].phase)
    /\ plan[2].phase = "all_red"
    /\ IsGreen(plan[3].phase)
    /\ plan[3].preemptable = FALSE

\* a plan of SJF chosen by META, with a preemptable green after the
\* transition
C11_WitnessMeta ==
    /\ Returned
    /\ policy = "META"
    /\ selected = "SJF"
    /\ Len(plan) = 3
    /\ plan[1].preemptable = FALSE
    /\ plan[2].preemptable = FALSE
    /\ plan[3].preemptable = TRUE

---------------------------------------------------------------------------
(* C12 *)

\* the positions of the greens of the plan
GreenPositions == {i \in 1..Len(plan) : IsGreen(plan[i].phase)}

\* C12: every non-empty plan schedule returns has exactly one green, which
\* is its last phase; the phases before it are yellow or all_red.
C12_OneGreenLast ==
    (Planned /\ plan # <<>>) =>
        /\ GreenPositions = {Len(plan)}
        /\ \A i \in 1..(Len(plan) - 1) :
               IsYellow(plan[i].phase) \/ plan[i].phase = "all_red"

\* Priority planned from a yellow: two phases before the only green
C12_Witness ==
    /\ Returned
    /\ selected = "PRIORITY"
    /\ IsYellow(state.current_phase)
    /\ Len(plan) = 3
    /\ GreenPositions = {3}

---------------------------------------------------------------------------
(* C13 *)

\* two calls were given equal queues, waiting_times, arrival_rates,
\* emergency, current_phase and policy (the params are the scheduler's)
SameInputs(c, d) ==
    /\ c.state.queues = d.state.queues
    /\ c.state.waiting_times = d.state.waiting_times
    /\ c.state.arrival_rates = d.state.arrival_rates
    /\ c.state.emergency = d.state.emergency
    /\ c.state.current_phase = d.state.current_phase
    /\ c.policy = d.policy

\* C13: two schedule calls on the same scheduler with equal inputs return
\* identical plans, even when sim_time differs and whatever calls were made
\* before or between them.
C13_Deterministic ==
    \A i \in 1..Len(calls) : \A j \in 1..Len(calls) :
        SameInputs(calls[i], calls[j]) =>
            (calls[i].plan = calls[j].plan /\ calls[i].error = calls[j].error)

\* the first and the third call had equal inputs at different sim_time,
\* with a call for another policy between them, and returned a plan
C13_Witness ==
    /\ Len(calls) = 3
    /\ SameInputs(calls[1], calls[3])
    /\ calls[1].state.sim_time # calls[3].state.sim_time
    /\ calls[2].policy # calls[1].policy
    /\ calls[2].plan # calls[1].plan
    /\ calls[3].plan # <<>>
    /\ calls[3].plan = calls[1].plan

---------------------------------------------------------------------------
(* C14 *)

\* the state is numerically valid: queues, rates and ETAs are not
\* negative, priorities are at least 1, current_phase is a PhaseId
NumericallyValid ==
    /\ \A d \in DOMAIN state.queues : state.queues[d] >= 0
    /\ \A d \in DOMAIN state.arrival_rates : state.arrival_rates[d] >= 0
    /\ \A i \in 1..Len(state.emergency) :
           /\ state.emergency[i].time_to_intersection >= 0
           /\ state.emergency[i].priority >= 1
    /\ state.current_phase \in PhaseIds

\* C14: on a numerically valid state and with a non-empty rr_cycle_order,
\* schedule returns a non-empty plan, without error, for each of RR, SJF,
\* PRIORITY and META.
C14_Total ==
    (/\ Called
     /\ NumericallyValid
     /\ policy_params.rr_cycle_order # <<>>)
    => (error = "none" /\ plan # <<>>)

\* Round Robin was asked on a state with no queues at all and a
\* current_phase that is not in the cycle
C14_Witness ==
    /\ Called
    /\ policy = "RR"
    /\ NumericallyValid
    /\ DOMAIN state.queues = {}
    /\ state.current_phase = "all_red"
    /\ error = "none"
    /\ plan # <<>>

---------------------------------------------------------------------------
(* C15 *)

\* C15: from a yellow current_phase the plan is exactly [all_red, target
\* green], with no further yellow, for every policy and on the emergency
\* path.
C15_FromYellowAllRedOnly ==
    (Returned /\ IsYellow(state.current_phase)) =>
        /\ Len(plan) = 2
        /\ plan[1].phase = "all_red"
        /\ IsGreen(plan[2].phase)
        /\ \A i \in 1..Len(plan) : ~IsYellow(plan[i].phase)

---------------------------------------------------------------------------
(* C16 *)

\* C16: when current_phase is the target green, or is all_red, the plan is
\* the target green alone, for RR, SJF, PRIORITY and the emergency handler.
C16_NoTransition ==
    (/\ Returned
     /\ plan # <<>>
     /\ (state.current_phase = LastPhase.phase \/ state.current_phase = "all_red"))
    => (Len(plan) = 1 /\ IsGreen(plan[1].phase))

\* the emergency handler planned from all_red
C16_Witness ==
    /\ Returned
    /\ UrgentEmergencies # {}
    /\ state.current_phase = "all_red"
    /\ Len(plan) = 1
    /\ IsGreen(plan[1].phase)
    /\ plan[1].preemptable = FALSE

\* SJF chose the green that is already showing
C16_WitnessSameGreen ==
    /\ Returned
    /\ selected = "SJF"
    /\ IsGreen(state.current_phase)
    /\ PlanPhases = <<state.current_phase>>

---------------------------------------------------------------------------
(* C17 *)

\* the positions of the greens of a plan
GreensOf(action_plan) ==
    {i \in 1..Len(action_plan) : IsGreen(action_plan[i].phase)}

\* the least element of a non-empty set of positions
Least(positions) == CHOOSE i \in positions : \A j \in positions : i <= j

\* call k + 1 was made with the policy of call k on the state that
\* simulate_one_step gives from call k's state and plan
Rescheduled(k) ==
    /\ calls[k].error = "none"
    /\ calls[k].plan # <<>>
    /\ calls[k + 1].policy = calls[k].policy
    /\ calls[k + 1].state = simulate_one_step(calls[k].state, calls[k].plan)

\* C17: when schedule is called again, with the same policy, on the state
\* reached by applying the first phase of its plan, and a green follows
\* that first phase in the plan, the new plan's first green is that green.
C17_ReplanKeepsTarget ==
    \A k \in 1..(Len(calls) - 1) :
        (Rescheduled(k) /\ GreensOf(calls[k].plan) \ {1} # {}) =>
            /\ calls[k + 1].error = "none"
            /\ GreensOf(calls[k + 1].plan) # {}
            /\ calls[k + 1].plan[Least(GreensOf(calls[k + 1].plan))].phase
                  = calls[k].plan[Least(GreensOf(calls[k].plan) \ {1})].phase

---------------------------------------------------------------------------
(* C18 *)

\* the number of emergencies whose direction is d
EmergenciesIn(direction) ==
    Cardinality({i \in 1..Len(state.emergency) :
                    state.emergency[i].direction = direction})

\* C18: the green of an emergency preemption plan lasts
\* clip(emergency_clear_duration + 5 * (k - 1), min_green, max_green), k
\* being the number of emergencies in the selected direction.
C18_EmergencyDuration ==
    (Returned /\ UrgentEmergencies # {}) =>
        /\ plan # <<>>
        /\ LastPhase.duration
              = Clip(2 * (policy_params.emergency_clear_duration
                          + 5 * (EmergenciesIn(EmergencyTargetDirection(state)) - 1)),
                     MinGreen, MaxGreen)

---------------------------------------------------------------------------
(* C19 *)

\* C19: without an urgent emergency, schedule(state, META) returns exactly
\* what schedule(state, q) returns for the policy q that _select_policy
\* names, one of RR, SJF, PRIORITY.
C19_MetaIsSelectedPolicy ==
    (Called /\ policy = "META" /\ UrgentEmergencies = {}) =>
        /\ C6_Expected \in {"RR", "SJF", "PRIORITY"}
        /\ [plan |-> plan, error |-> error]
              = schedule(policy_params, state, C6_Expected)

\* META chose SJF where Round Robin and Priority would each have planned
\* something else
C19_Witness ==
    /\ Called
    /\ policy = "META"
    /\ UrgentEmergencies = {}
    /\ selected = "SJF"
    /\ error = "none"
    /\ plan = _sjf_schedule(policy_params, state).plan
    /\ plan # _round_robin_schedule(policy_params, state).plan
    /\ plan # _priority_schedule(policy_params, state).plan

---------------------------------------------------------------------------
(* C20 *)

\* C20: a policy outside RR, SJF, PRIORITY, META makes schedule fail with
\* the unsupported-policy error (the ValueError of schedule) and return no
\* plan, in every state, urgent emergency or not.
C20_UnsupportedPolicy ==
    (pc = "scheduled" /\ policy \notin SchedulingPolicy) =>
        (error = "ValueError" /\ plan = <<>>)

---------------------------------------------------------------------------
(* C21 *)

\* C21: with an empty rr_cycle_order and no emergencies, schedule fails
\* with the EmptyPlan error for every policy; it neither returns a plan
\* (an empty one least of all) nor fails with another error.
C21_EmptyPlanSurfaced ==
    (/\ Called
     /\ policy_params.rr_cycle_order = <<>>
     /\ state.emergency = <<>>)
    => (error = "EmptyPlan" /\ plan = <<>>)

---------------------------------------------------------------------------
(* C22 *)

\* call k was given an invalid state: an emergency with a negative
\* time_to_intersection, a negative waiting time, or a sim_time smaller
\* than that of an earlier call on the scheduler
InvalidCall(k) ==
    \/ \E i \in 1..Len(calls[k].state.emergency) :
           calls[k].state.emergency[i].time_to_intersection < 0
    \/ \E d \in DOMAIN calls[k].state.waiting_times :
           \E i \in 1..Len(calls[k].state.waiting_times[d]) :
               calls[k].state.waiting_times[d][i] < 0
    \/ \E j \in 1..(k - 1) : calls[j].state.sim_time > calls[k].state.sim_time

\* C22: schedule rejects an invalid state: the call fails (with the
\* InvalidState error) and returns no plan.
C22_InvalidStateRejected ==
    \A k \in 1..Len(calls) :
        InvalidCall(k) => (calls[k].error # "none" /\ calls[k].plan = <<>>)

---------------------------------------------------------------------------
(* C23 *)

\* the state with every missing direction of queues present with queue 0
ZeroFilled(st) ==
    [st EXCEPT !.queues = [d \in Directions |->
                              IF d \in DOMAIN st.queues THEN st.queues[d] ELSE 0]]

\* C23: for every policy, META included, schedule returns for a state
\* whose queues omit directions what it returns for the same state with
\* those directions present with queue 0.
C23_MissingKeysAsZero ==
    Called =>
        [plan |-> plan, error |-> error]
            = schedule(policy_params, ZeroFilled(state), policy)

---------------------------------------------------------------------------
(* C24 *)

\* C24: a schedule call changes no data: the state passed in and
\* policy_params are what they were before the call, and _policy_history
\* and _last_phase_switch_time are still empty, after any number of calls.
C24_NoSideEffects ==
    [][Len(calls') = Len(calls) + 1 =>
          /\ state' = state
          /\ policy_params' = policy_params
          /\ policy_history' = <<>>
          /\ last_phase_switch_time' = <<>>]_vars

\* three calls were made, META among them, and the state is the one passed
\* to the last call and the bookkeeping fields are empty
C24_Witness ==
    /\ Len(calls) = 3
    /\ pc = "scheduled"
    /\ \E k \in 1..3 : calls[k].policy = "META"
    /\ \E k \in 1..3 : calls[k].policy # "META" /\ calls[k].plan # calls[3].plan
    /\ state = calls[3].state
    /\ state.sim_time > 0
    /\ policy_history = <<>>
    /\ last_phase_switch_time = <<>>

---------------------------------------------------------------------------
(* C25 *)

\* the state that was passed to the last schedule call
Passed == calls[Len(calls)].state

\* C25: simulate_one_step on a non-empty plan gives a state with
\* current_phase = plan[0].phase and sim_time advanced by plan[0].duration,
\* the other four fields equal to the input's, whatever follows in the
\* plan; on an empty plan it gives the input state.
C25_SimulateOneStep ==
    pc = "stepped" =>
        IF plan = <<>> THEN state = Passed
        ELSE /\ state.current_phase = plan[1].phase
             /\ state.sim_time = Passed.sim_time + plan[1].duration
             /\ state.queues = Passed.queues
             /\ state.waiting_times = Passed.waiting_times
             /\ state.arrival_rates = Passed.arrival_rates
             /\ state.emergency = Passed.emergency
             /\ DOMAIN state = DOMAIN Passed

\* the first phase of a three-phase plan was applied: the yellow shows and
\* only its duration has passed
C25_Witness ==
    /\ pc = "stepped"
    /\ Len(plan) = 3
    /\ IsGreen(Passed.current_phase)
    /\ IsYellow(state.current_phase)
    /\ state.sim_time = 2 * policy_params.yellow_duration
    /\ state.emergency # <<>>
    /\ state.queues # NoQueues

\* the empty plan SJF returns for an empty cycle was applied
C25_WitnessEmptyPlan ==
    /\ pc = "stepped"
    /\ plan = <<>>
    /\ state = Passed

---------------------------------------------------------------------------
(* C26 *)

\* the string text occurs in the string s
Contains(s, text) ==
    \E i \in 1..(Len(s) - Len(text) + 1) :
        SubSeq(s, i, i + Len(text) - 1) = text

\* the policy an explanation names
PolicyNamed(s) ==
    IF Contains(s, "using Round Robin") THEN "RR"
    ELSE IF Contains(s, "using SJF") THEN "SJF"
    ELSE IF Contains(s, "using Priority") THEN "PRIORITY"
    ELSE "none"

\* C26: explain_decision reports emergency and Priority iff state.emergency
\* is not empty, else Round Robin iff mean < low_load_threshold, else SJF
\* iff variance > high_variance_threshold, else Priority; the policy it
\* names is the one _select_policy returns, whatever policy is passed.
C26_ExplainsSelection ==
    pc = "explained" =>
        /\ Contains(explanation, "Emergency") <=> state.emergency # <<>>
        /\ PolicyNamed(explanation) = C6_Expected
        /\ PolicyNamed(explanation) = _select_policy(policy_params, state)
        /\ Contains(explanation, "Low traffic load") <=> C6_Expected = "RR"
        /\ Contains(explanation, "High queue variance") <=> C6_Expected = "SJF"
        /\ Contains(explanation, "Balanced conditions")
               <=> (C6_Expected = "PRIORITY" /\ state.emergency = <<>>)

\* asked to explain Round Robin on a state where the selection is SJF, the
\* explanation names SJF and gives the variance
C26_Witness ==
    /\ pc = "explained"
    /\ policy = "RR"
    /\ state.emergency = <<>>
    /\ PolicyNamed(explanation) = "SJF"
    /\ Contains(explanation, "High queue variance (0.2)")

---------------------------------------------------------------------------
(* C27 *)

\* the phases the lights have shown since the state was built, the one
\* showing then included
Trace == <<state.current_phase>> \o [i \in 1..Len(shown) |-> shown[i].phase]

\* C27: when a caller chains plans, showing their phases in order and
\* asking again at any phase boundary with current_phase the phase
\* showing (queues, emergencies and policy free to change), every green
\* shown comes immediately after all_red or after the same green, never
\* after the other green or a yellow.
C27_GreenAfterAllRedOrSame ==
    \A i \in 2..Len(Trace) :
        IsGreen(Trace[i]) => Trace[i - 1] \in {"all_red", Trace[i]}

\* a plan asked for while a yellow was showing, later than the first call,
\* shown up to its green
C27_Witness ==
    /\ state.sim_time > 0
    /\ IsYellow(state.current_phase)
    /\ Len(shown) = 3
    /\ shown[2].phase = "all_red"
    /\ IsGreen(shown[3].phase)

\* a plan asked for under META while a green was showing, later than the
\* first call, whose single phase is the same green
C27_WitnessSameGreen ==
    /\ state.sim_time > 0
    /\ IsGreen(state.current_phase)
    /\ policy = "META"
    /\ Len(plan) = 1
    /\ shown = <<SetPhaseCall(plan[1])>>
    /\ shown[1].phase = state.current_phase

---------------------------------------------------------------------------
(* C28 *)

\* calls k, k + 1 and k + 2 are three rounds of the loop
\* s := simulate_one_step(s, schedule(s, p)), the first one on a green
LoopFromGreen(k) ==
    /\ IsGreen(calls[k].state.current_phase)
    /\ Rescheduled(k)
    /\ Rescheduled(k + 1)

\* C28: the loop s := simulate_one_step(s, schedule(s, p)), with a fixed
\* policy and unchanged queues and emergencies, started on a green, comes
\* back to a green.  schedule reads neither sim_time nor any stored
\* field, and simulate_one_step changes current_phase and sim_time only,
\* so the loop's next current_phase is a function of the present one: a
\* round that starts on the yellow or all_red it started on the round
\* before repeats for ever.  The loop therefore comes back to a green
\* only if no round away from green leaves current_phase as it was.
C28_LoopReachesGreen ==
    \A k \in 1..(Len(calls) - 2) :
        (LoopFromGreen(k) /\ ~IsGreen(calls[k + 1].state.current_phase))
            => calls[k + 2].state.current_phase
                   # calls[k + 1].state.current_phase

---------------------------------------------------------------------------
(* C29 *)

\* the green of the plan call k returned
GreenOfCall(k) == calls[k].plan[Least(GreensOf(calls[k].plan))].phase

\* call k + 1 was made once the plan of call k had been executed to its
\* end
ExecutedBefore(k) ==
    /\ calls[k].error = "none"
    /\ calls[k].plan # <<>>
    /\ calls[k + 1].state.current_phase
           = calls[k].plan[Len(calls[k].plan)].phase

\* C29: with the default cycle [NS_green, EW_green], no urgent emergency
\* and each plan executed to completion before the next schedule(state,
\* RR), every plan has one green, the next call starts on it, and the
\* greens of successive plans alternate between NS_green and EW_green,
\* from any first current_phase and for any queues.
C29_RoundRobinAlternates ==
    /\ \A k \in 1..Len(calls) :
           /\ calls[k].error = "none"
           /\ Cardinality(GreensOf(calls[k].plan)) = 1
           /\ IsGreen(calls[k].plan[Len(calls[k].plan)].phase)
    /\ \A k \in 1..(Len(calls) - 1) :
           (/\ calls[k].policy = "RR"
            /\ calls[k + 1].policy = "RR"
            /\ ExecutedBefore(k))
               => GreenOfCall(k + 1) = OtherGreen(GreenOfCall(k))

\* three plans from a yellow, queues changing in between: NS_green,
\* EW_green, NS_green
C29_Witness ==
    /\ Len(calls) = 3
    /\ IsYellow(calls[1].state.current_phase)
    /\ calls[2].state.queues # calls[1].state.queues
    /\ calls[3].state.queues # calls[2].state.queues
    /\ calls[3].state.emergency # <<>>
    /\ ExecutedBefore(1)
    /\ ExecutedBefore(2)
    /\ <<GreenOfCall(1), GreenOfCall(2), GreenOfCall(3)>>
           = <<"NS_green", "EW_green", "NS_green">>

---------------------------------------------------------------------------
(* C30 *)

\* what the planner of the requested policy returns for the state, META
\* standing for the policy it selects
NormalPath ==
    LET q == IF policy = "META" THEN _select_policy(policy_params, state)
             ELSE policy
    IN  CASE q = "RR" -> _round_robin_schedule(policy_params, state)
          [] q = "SJF" -> _sjf_schedule(policy_params, state)
          [] q = "PRIORITY" -> _priority_schedule(policy_params, state)

\* C30: schedule returns the emergency preemption plan, ending in a
\* non-preemptable green, if some emergency has time_to_intersection <=
\* emergency_preempt_buffer or a queue > 0 in its direction (a missing
\* entry counting as 0), and otherwise the plan of the requested policy,
\* ending in a preemptable green; a time_to_intersection equal to the
\* buffer is urgent.
C30_EmergencyPathIffUrgent ==
    Called =>
        /\ error = "none"
        /\ plan # <<>>
        /\ UrgentEmergencies # {}
               => /\ plan = _handle_emergency(policy_params, state).plan
                  /\ LastPhase.preemptable = FALSE
        /\ UrgentEmergencies = {}
               => /\ plan = NormalPath.plan
                  /\ LastPhase.preemptable = TRUE

\* the only emergency arrives in exactly emergency_preempt_buffer seconds
\* from a direction without a queue entry, and is served
C30_Witness ==
    /\ Called
    /\ Len(state.emergency) = 1
    /\ state.emergency[1].time_to_intersection
           = policy_params.emergency_preempt_buffer
    /\ state.emergency[1].direction \notin DOMAIN state.queues
    /\ LastPhase.phase = GreenServing(state.emergency[1].direction)
    /\ LastPhase.preemptable = FALSE

\* emergencies farther away than the buffer, one of them from a direction
\* without a queue entry and none behind a queue: the plan is the
\* requested policy's
C30_WitnessNormalPath ==
    /\ Called
    /\ state.emergency # <<>>
    /\ \A i \in 1..Len(state.emergency) :
           /\ state.emergency[i].time_to_intersection
                  > policy_params.emergency_preempt_buffer
           /\ QueueOf(state.emergency[i].direction) = 0
    /\ \E i \in 1..Len(state.emergency) :
           state.emergency[i].direction \notin DOMAIN state.queues
    /\ policy = "RR"
    /\ plan = _round_robin_schedule(policy_params, state).plan
    /\ LastPhase.preemptable = TRUE

---------------------------------------------------------------------------
(* C31 *)

\* the state with the emergency list emptied
NoEmergencies(st) == [st EXCEPT !.emergency = <<>>]

\* C31: when no emergency of the state is urgent, schedule(state, RR) and
\* schedule(state, SJF) return the plan they return for the same state
\* with an empty emergency list; META on a state that has emergencies
\* selects PRIORITY and returns the Priority plan.
C31_NonUrgentIgnored ==
    (Called /\ UrgentEmergencies = {}) =>
        /\ policy \in {"RR", "SJF"}
               => /\ error = "none"
                  /\ plan = schedule(policy_params, NoEmergencies(state),
                                     policy).plan
        /\ (policy = "META" /\ state.emergency # <<>>)
               => /\ selected = "PRIORITY"
                  /\ plan = _priority_schedule(policy_params, state).plan

\* SJF called on a state with emergencies, none urgent, on which the
\* Priority plan does depend on them
C31_Witness ==
    /\ Called
    /\ policy = "SJF"
    /\ state.emergency # <<>>
    /\ UrgentEmergencies = {}
    /\ plan = _sjf_schedule(policy_params, NoEmergencies(state)).plan
    /\ _priority_schedule(policy_params, state).plan
           # _priority_schedule(policy_params, NoEmergencies(state)).plan

---------------------------------------------------------------------------
(* C32 *)

\* C32: apply_action_plan calls sim.set_phase once per phase of the plan,
\* in plan order, each call with that phase's name and duration; for an
\* empty plan it makes no call.
C32_OneCallPerPhase ==
    pc = "applied" =>
        /\ Len(shown) = Len(plan)
        /\ \A i \in 1..Len(plan) :
               /\ shown[i].phase = plan[i].phase
               /\ shown[i].duration = plan[i].duration
        /\ plan = <<>> => shown = <<>>

\* a plan with a yellow, an all_red and a green of another duration,
\* applied
C32_Witness ==
    /\ pc = "applied"
    /\ Len(plan) = 3
    /\ Len(shown) = 3
    /\ IsYellow(shown[1].phase)
    /\ shown[2].phase = "all_red"
    /\ IsGreen(shown[3].phase)
    /\ shown[3].duration # shown[1].duration
    /\ shown[2].duration # shown[1].duration

\* the empty plan, returned by SJF for an empty cycle, applied
C32_WitnessEmptyPlan ==
    /\ pc = "applied"
    /\ error = "none"
    /\ plan = <<>>
    /\ shown = <<>>

---------------------------------------------------------------------------
(* C33 *)

\* the approaches that cross the approach of a direction
Perpendicular(d) ==
    IF d \in {"NORTH", "SOUTH"} THEN {"EAST", "WEST"} ELSE {"NORTH", "SOUTH"}

\* C33: in the pygame simulation, with NORTH first GREEN and the others
\* RED and update_vehicles stepping the four lights, the lights of two
\* perpendicular approaches are never GREEN at the same time.
C33_NoPerpendicularGreens ==
    \A d \in Direction :
        \A e \in Perpendicular(d) :
            ~(traffic_lights[d].state = "GREEN"
              /\ traffic_lights[e].state = "GREEN")

=============================================================================
